---- MODULE Spec2Model ----
(***************************************************************************)
(* The per-authority consensus Core of Pako (consensus/src/core.rs), its   *)
(* messages and their validation (consensus/src/messages.rs) and the       *)
(* quorum collector (consensus/src/aggregator.rs).                         *)
(*                                                                         *)
(* Conventions                                                             *)
(*  - Option<T>: None is <<>>, Some(x) is <<x>>.                           *)
(*  - A HashMap is a function whose DOMAIN is the set of keys present.     *)
(*  - A Digest is the sequence of values fed to the hasher (SHA-512 is     *)
(*    taken to be collision free); a fixed-width field (a key, an epoch,   *)
(*    a view, a payload digest, a flag byte) is one element, a string      *)
(*    literal is one element >= 1000.                                      *)
(*  - A signature is the pair (signer, signed digest); a threshold         *)
(*    signature is (signed digest, its first 8 bytes): BLS signatures are  *)
(*    deterministic, so the bytes are a function of the digest for a       *)
(*    signature that verifies.                                             *)
(***************************************************************************)
EXTENDS Integers, Sequences, FiniteSets, TLC

\* ------------------------------------------------------------------ bounds
\* Epochs the environment speaks about are 1..MaxEpoch.
MaxEpoch == 2
\* Inbound messages on core_channel one Core handles in a run.
MaxEvents == 3
\* Distinct authors that append to the stand-alone aggregator are the
\* committee plus MaxStrangers keys without stake.
MaxStrangers == 1
\* Which key set the committee was set up with.
KeySet == 2
\* Payloads of the blocks whose digests are compared hold at most
\* MaxPayloadLen payload digests.
MaxPayloadLen == 2
\* Views of the coins that are built and verified on their own are 1..MaxView.
MaxView == 2
\* Inbound messages delivered to the two Cores together when both run.
MaxPairEvents == 2
\* Inbound messages one Core handles in a run of valid Halts, coins and
\* Echoes.
MaxHaltEvents == 5

\* ------------------------------------------------------------------- state
VARIABLES
    \* The fields of struct Core, one value per modelled authority.
    votes_aggregators,        \* (epoch, digest) -> Aggregator
    election_states,          \* (epoch, view) -> ElectionState
    ba_states,                \* epoch -> BAState
    blocks_received,          \* (author, epoch) -> Block
    commit_vectors_received,  \* (author, epoch) -> CommitVector
    halt_mark,
    epochs_halted,
    \* What the Core writes to.
    store,                    \* Store: (epoch, author) -> Block
    commit_channel,           \* the blocks sent to the consumer, in order
    network,                  \* the frames handed to the network filter, in order
    halt_channel,             \* (ElectionState reference, Block) for the halt task
    aba_sync,                 \* the epochs handed to the BA task
    \* What the synchronizer tasks own or write to.
    advance_channel,          \* Halt values for Core::advance
    aba_feedback,             \* (epoch, is_optimistic_path_success, coin)
    aba_waiting,              \* epochs decided 1 whose leader block is awaited
    ba_decision,              \* epoch -> the bit Binary Agreement decided
    dropped,                  \* election cells cleaned from the map, still referenced
    \* The event loop of Core::run.
    pc,                       \* "boot" before start_new_epoch(1), then "run"
    panicked,                 \* the Core's task died in a panic
    result,                   \* what the last handler returned
    event,                    \* the event the loop handled last
    events,                   \* inbound messages handled so far
    \* A stand-alone Aggregator and the outcome of its last append.
    aggregator, agg_out, agg_releases,
    \* The arguments and the value of the last call of a pure function.
    call

\* ------------------------------------------------------------ Option, maps
None == <<>>
Some(x) == <<x>>
IsSome(o) == o /= <<>>
Unwrap(o) == o[1]

EmptyMap == <<>>
Has(m, k) == k \in DOMAIN m
Put(m, k, v) == [x \in (DOMAIN m) \cup {k} |-> IF x = k THEN v ELSE m[x]]
Retain(m, keep) == [x \in keep |-> m[x]]
Get(m, k) == IF Has(m, k) THEN Some(m[k]) ELSE None

RECURSIVE SetToSortedSeq(_)
SetToSortedSeq(S) ==
    IF S = {} THEN <<>>
    ELSE LET m == CHOOSE x \in S : \A y \in S : x <= y
         IN <<m>> \o SetToSortedSeq(S \ {m})

Range(s) == {s[i] : i \in DOMAIN s}

\* --------------------------------------------------------------- committee
\* The committee of the scenarios of the specification: n = 4, f = 1, unit
\* stakes.  Public keys are ordered as numbers (PublicKey: Ord).
Authorities == {11, 12, 13, 14}
\* Keys that are not in the committee.
Strangers == {90 + i : i \in 1..MaxStrangers}

\* Committee::stake: the stake of a member, 0 for anybody else.
Stake(k) == IF k \in Authorities THEN 1 ELSE 0
TotalStake == Cardinality(Authorities)
\* Committee::size
CommitteeSize == Cardinality(Authorities)
\* Committee::quorum_threshold: ceil((2 total + 1) / 3), 2f+1.
QuorumThreshold == (2 * TotalStake + 1 + 2) \div 3
\* Committee::random_coin_threshold: ceil((total + 1) / 3), f+1.
RandomCoinThreshold == (TotalStake + 1 + 2) \div 3

\* ------------------------------------------------------------------ digests
\* The bytes of a string literal fed to the hasher.
Str(s) ==
    CASE s = "ECHO" -> 1001
      [] s = "PB1_FINISH" -> 1002
      [] s = "PB2_FINISH" -> 1003
      [] s = "RANDOMNESS_SHARE" -> 1004
      [] s = "RANDOM_COIN" -> 1005
      [] s = "DONE" -> 1006
      [] s = "HALT" -> 1007

\* The byte that tells whether a proof is present.
ProofBit(proof) == IF IsSome(proof) THEN 1 ELSE 0

\* A buggy digest: the proof-presence byte is left out.
BlockDigestNoProofBit(block) ==
    <<block.author, block.epoch>> \o block.payload

\* impl Hash for Block
BlockDigest(block) ==
    <<block.author, block.epoch>> \o block.payload \o <<ProofBit(block.proof)>>

\* impl Hash for CommitVector: received is hashed in key order.
CommitVectorDigest(cv) ==
    <<cv.epoch, cv.author, ProofBit(cv.proof)>>
        \o SetToSortedSeq(Range(cv.received))

PhaseByte(phase) == IF phase = "Phase1" THEN 0 ELSE 1

\* impl Hash for Echo: keyed on <epoch, phase> only.
EchoDigest(echo) == <<echo.epoch, PhaseByte(echo.phase), Str("ECHO")>>

\* Val: the digest, author, phase and epoch of either variant.
ValDigest(val) ==
    IF val.type = "Block" THEN BlockDigest(val.v) ELSE CommitVectorDigest(val.v)
ValPhase(val) == IF val.type = "Block" THEN "Phase1" ELSE "Phase2"

\* impl Hash for Finish
FinishDigest(finish) ==
    IF finish.type = "Block"
    THEN <<finish.v.epoch, Str("PB1_FINISH")>>
    ELSE <<finish.v.epoch, Str("PB2_FINISH")>>

\* impl Hash for RandomnessShare, and the digest RandomCoin::verify rebuilds.
ShareDigest(epoch, view) == <<epoch, view, Str("RANDOMNESS_SHARE")>>

\* impl Hash for Done
DoneDigest(done) == <<done.coin.epoch, done.coin.view, Str("DONE")>>

\* ---------------------------------------------------------------- signatures
\* SignatureService::request_signature by `signer` over `digest`.
Sign(signer, digest) == [signer |-> signer, msg |-> digest]
\* Signature::verify(digest, author)
SigVerify(sig, digest, author) == sig.signer = author /\ sig.msg = digest

\* The first 8 bytes of the one threshold signature that the committee's key
\* set (Core.pk_set, the KeySet-th of the key sets a setup can draw) produces
\* over `digest`: a fixed function of key set and digest.
RECURSIVE SumSeq(_)
SumSeq(s) == IF s = <<>> THEN 0 ELSE s[1] + SumSeq(Tail(s))
TsBytes(digest) ==
    [i \in 1..8 |-> ((SumSeq(digest) + KeySet) * (2 * i + 1) + KeySet * i) % 256]
\* The threshold signature over `digest`.
ThresholdSign(digest) == [msg |-> digest, bytes |-> TsBytes(digest)]
\* A value that is no threshold signature of anything.
BadSigma == [msg |-> <<>>, bytes |-> [i \in 1..8 |-> 0]]
\* threshold_crypto::PublicKey::verify(sigma, digest)
TsVerify(sigma, digest) == sigma = ThresholdSign(digest)

\* SignatureService::request_tss_signature: the share of `signer`.
SignShare(signer, digest) == [signer |-> signer, msg |-> digest]
\* PublicKeyShare::verify(share, digest) for the share key of `author`.
ShareVerify(share, digest, author) == share.signer = author /\ share.msg = digest
\* PublicKeySet::combine_signatures: interpolation of the shares; the result
\* verifies only when all the shares are over one digest.
CombineSignatures(shares) ==
    IF \E d \in {s.msg : s \in shares} : \A s \in shares : s.msg = d
    THEN ThresholdSign((CHOOSE s \in shares : TRUE).msg)
    ELSE BadSigma

\* ------------------------------------------------------------- validation
\* The liveness window every verify starts from or reaches.
EpochLive(epoch, hm, halted) == epoch > hm /\ epoch \notin halted

\* A buggy Block::verify: the epoch window is not checked.
BlockVerifyNoWindow(block, hm, halted) ==
    IF ~(Stake(block.author) > 0) THEN "UnknownAuthority"
    ELSE IF ~SigVerify(block.signature, BlockDigest(block), block.author)
    THEN "InvalidSignature"
    ELSE "Ok"

\* Block::verify
BlockVerify(block, hm, halted) ==
    IF ~EpochLive(block.epoch, hm, halted) THEN "MessageWithHaltedEpoch"
    ELSE IF ~(Stake(block.author) > 0) THEN "UnknownAuthority"
    ELSE IF ~SigVerify(block.signature, BlockDigest(block), block.author)
    THEN "InvalidSignature"
    ELSE "Ok"

\* Block::check_sigma
BlockCheckSigma(block) ==
    IF IsSome(block.proof)
    THEN TsVerify(Unwrap(block.proof), BlockDigest(block))
    ELSE FALSE

\* The distinct committee members of a received list (the fold of
\* CommitVector::verify).
RECURSIVE CountDistinctMembers(_, _)
CountDistinctMembers(received, seen) ==
    IF received = <<>> THEN 0
    ELSE IF Head(received) \in Authorities /\ Head(received) \notin seen
         THEN 1 + CountDistinctMembers(Tail(received), seen \cup {Head(received)})
         ELSE CountDistinctMembers(Tail(received), seen)

\* A CommitVector::verify without the check of the received list.
CommitVectorVerifyAnyList(cv, hm, halted) ==
    IF ~EpochLive(cv.epoch, hm, halted) THEN "MessageWithHaltedEpoch"
    ELSE IF ~(Stake(cv.author) > 0) THEN "UnknownAuthority"
    ELSE IF ~SigVerify(cv.signature, CommitVectorDigest(cv), cv.author)
    THEN "InvalidSignature"
    ELSE "Ok"

\* CommitVector::verify
CommitVectorVerify(cv, hm, halted) ==
    IF ~EpochLive(cv.epoch, hm, halted) THEN "MessageWithHaltedEpoch"
    ELSE IF ~(Stake(cv.author) > 0) THEN "UnknownAuthority"
    ELSE IF ~SigVerify(cv.signature, CommitVectorDigest(cv), cv.author)
    THEN "InvalidSignature"
    ELSE IF ~(CountDistinctMembers(cv.received, {}) >= QuorumThreshold)
    THEN "InvalidCommitVector"
    ELSE "Ok"

\* CommitVector::check_sigma
CommitVectorCheckSigma(cv) ==
    IF IsSome(cv.proof)
    THEN TsVerify(Unwrap(cv.proof), CommitVectorDigest(cv))
    ELSE FALSE

\* An Echo::verify that does not compare the digest author.
EchoVerifyAnyLeader(echo, digest_author, hm, halted) ==
    IF ~EpochLive(echo.epoch, hm, halted) THEN "MessageWithHaltedEpoch"
    ELSE IF ~(Stake(echo.author) > 0) THEN "UnknownAuthority"
    ELSE IF ~ShareVerify(echo.signature_share, echo.digest, echo.author)
    THEN "InvalidSignatureShare"
    ELSE "Ok"

\* Echo::verify, digest_author being the name of the verifying Core.
EchoVerify(echo, digest_author, hm, halted) ==
    IF ~EpochLive(echo.epoch, hm, halted) THEN "MessageWithHaltedEpoch"
    ELSE IF echo.digest_author /= digest_author THEN "WrongLeader"
    ELSE IF ~(Stake(echo.author) > 0) THEN "UnknownAuthority"
    ELSE IF ~ShareVerify(echo.signature_share, echo.digest, echo.author)
    THEN "InvalidSignatureShare"
    ELSE "Ok"

\* RandomnessShare::verify
RandomnessShareVerify(share, hm, halted) ==
    IF ~EpochLive(share.epoch, hm, halted) THEN "MessageWithHaltedEpoch"
    ELSE IF ~(Stake(share.author) > 0) THEN "UnknownAuthority"
    ELSE IF ~ShareVerify(share.signature_share,
                         ShareDigest(share.epoch, share.view), share.author)
    THEN "InvalidSignatureShare"
    ELSE "Ok"

\* ------------------------------------------------------------ leader election
\* usize::from_be_bytes(bytes) % n.  The 64-bit value is not built: the
\* remainder is taken by long division over the base-256 digits, most
\* significant first, which is the same number.
RECURSIVE BeBytesMod(_, _, _)
BeBytesMod(bytes, n, acc) ==
    IF bytes = <<>> THEN acc
    ELSE BeBytesMod(Tail(bytes), n, (acc * 256 + Head(bytes)) % n)

\* A buggy conversion: the bytes are read least significant first.
RECURSIVE LeBytesMod(_, _, _)
LeBytesMod(bytes, n, acc) ==
    IF bytes = <<>> THEN acc
    ELSE LeBytesMod(SubSeq(bytes, 1, Len(bytes) - 1), n,
                    (acc * 256 + bytes[Len(bytes)]) % n)

\* A buggy election: the bytes of the signature are read little-endian.
ElectLeaderLittleEndian(sigma) ==
    SetToSortedSeq(Authorities)[LeBytesMod(SubSeq(sigma.bytes, 1, 8), CommitteeSize, 0) + 1]

\* The leader a threshold signature elects: keys[id] with keys the sorted
\* committee keys and id = from_be_bytes(sig[0..8]) % size
\* (Core::handle_randommess_share and RandomCoin::verify hold the same lines).
ElectLeader(sigma) ==
    SetToSortedSeq(Authorities)[BeBytesMod(SubSeq(sigma.bytes, 1, 8), CommitteeSize, 0) + 1]

\* RandomCoin::verify
RandomCoinVerify(coin, hm, halted) ==
    IF ~EpochLive(coin.epoch, hm, halted) THEN "MessageWithHaltedEpoch"
    ELSE IF ~TsVerify(coin.threshold_sig, ShareDigest(coin.epoch, coin.view))
    THEN "InvalidThresholdSignature"
    ELSE IF ElectLeader(coin.threshold_sig) /= coin.leader
    THEN "RandomCoinWithWrongLeader"
    ELSE "Ok"

\* Done::verify
DoneVerify(done, hm, halted) ==
    IF ~(Stake(done.author) > 0) THEN "UnknownAuthority"
    ELSE RandomCoinVerify(done.coin, hm, halted)

\* Halt::verify
HaltVerify(halt, hm, halted) ==
    IF ~(Stake(halt.author) > 0) THEN "UnknownAuthority"
    ELSE IF BlockVerify(halt.block, hm, halted) /= "Ok"
    THEN BlockVerify(halt.block, hm, halted)
    ELSE IF ~BlockCheckSigma(halt.block) THEN "InvalidSignatureShare"
    ELSE "Ok"

\* ----------------------------------------------------------------- Aggregator
\* Aggregator::new
NewAggregator == [weight |-> 0, votes |-> <<>>, used |-> {}]

\* The threshold Aggregator::append picks from the kind of the vote.
Threshold(vote) ==
    IF vote.type = "RandomnessShare" THEN RandomCoinThreshold ELSE QuorumThreshold

\* An admission that stores the vote before it looks at the author.
AggAdmitPushFirst(agg, author, vote, stake) ==
    IF author \in agg.used
    THEN [agg |-> [agg EXCEPT !.votes = Append(@, vote)], err |-> "AuthorityReuse"]
    ELSE [agg |-> [weight |-> agg.weight + stake,
                   votes |-> Append(agg.votes, vote),
                   used |-> agg.used \cup {author}],
          err |-> "Ok"]

\* The admission half of Aggregator::append: one vote per author, the vote is
\* stored and the author's stake added.  Yields the aggregator and the error.
AggAdmit(agg, author, vote, stake) ==
    IF author \in agg.used
    THEN [agg |-> agg, err |-> "AuthorityReuse"]
    ELSE [agg |-> [weight |-> agg.weight + stake,
                   votes |-> Append(agg.votes, vote),
                   used |-> agg.used \cup {author}],
          err |-> "Ok"]

\* The release half of Aggregator::append (Aggregator::take of the Core's
\* calls): at or past the threshold the weight is zeroed and the votes are
\* returned.
AggTake(agg, threshold) ==
    IF agg.weight >= threshold
    THEN [agg |-> [agg EXCEPT !.weight = 0], ret |-> Some(agg.votes)]
    ELSE [agg |-> agg, ret |-> None]

\* Aggregator::append(author, vote, committee)
AggAppend(agg, author, vote) ==
    LET a == AggAdmit(agg, author, vote, Stake(author))
    IN IF a.err /= "Ok"
       THEN [agg |-> a.agg, err |-> a.err, ret |-> None]
       ELSE LET t == AggTake(a.agg, Threshold(vote))
            IN [agg |-> t.agg, err |-> "Ok", ret |-> t.ret]

\* ------------------------------------------------------------------ the Core
(***************************************************************************)
(* A handler is an operator from the Core's state c (a record of the       *)
(* fields of struct Core, the channels it writes and the outcome of the    *)
(* call) to the state after the call.  c.result is "Ok" or the error the   *)
(* call returned; a panic (unwrap of None, expect) sets c.panicked and     *)
(* unwinds through every caller like an error that nobody catches.         *)
(***************************************************************************)
Fail(c, err) == [c EXCEPT !.result = err]
Panic(c) == [c EXCEPT !.result = "Panic", !.panicked = TRUE]
IsOk(c) == c.result = "Ok"

\* ConsensusMessage variants.
Msg(type, body) == [type |-> type, body |-> body]

\* The only view the Core ever starts: RandomnessShare::new(epoch, 1, ..),
\* election_states.entry((epoch, 1)).
FirstView == 1

\* synchronizer::transmit through Core::transmit: the frame is handed to the
\* network filter; `to` is None for a broadcast.
Transmit(c, message, to) ==
    [c EXCEPT !.network = Append(@, [msg |-> message, to |-> to])]

\* Core::store: the block is written under the key <epoch, view, author>.
StoreBlock(c, block) ==
    [c EXCEPT !.store = Put(@, <<block.epoch, block.author>>, block)]

\* Core::update_val
UpdateVal(c, val) ==
    IF val.type = "Block"
    THEN [c EXCEPT !.blocks_received = Put(@, <<val.v.author, val.v.epoch>>, val.v)]
    ELSE [c EXCEPT !.commit_vectors_received =
                        Put(@, <<val.v.author, val.v.epoch>>, val.v)]

\* Core::get_block, Core::get_cv
GetBlock(c, author, epoch) == Get(c.blocks_received, <<author, epoch>>)
GetCv(c, author, epoch) == Get(c.commit_vectors_received, <<author, epoch>>)

\* votes_aggregators.entry(key).or_insert_with(Aggregator::new).append(..)?
AggregatorAppend(c, key, author, message) ==
    LET agg == IF Has(c.votes_aggregators, key)
               THEN c.votes_aggregators[key] ELSE NewAggregator
        a == AggAdmit(agg, author, message, Stake(author))
    IN [[c EXCEPT !.votes_aggregators = Put(@, key, a.agg)] EXCEPT !.result = a.err]

\* Echo::new
NewEcho(digest, digest_author, phase, epoch, author) ==
    [digest |-> digest, digest_author |-> digest_author, phase |-> phase,
     epoch |-> epoch, author |-> author,
     signature_share |-> SignShare(author, digest)]

\* Block::new: the author's signature is over the digest of the block.
NewBlock(payload, author, epoch, proof) ==
    LET block == [payload |-> payload, author |-> author,
                  signature |-> Sign(0, <<>>), epoch |-> epoch, proof |-> proof]
    IN [block EXCEPT !.signature = Sign(author, BlockDigest(block))]

\* CommitVector::new
NewCommitVector(epoch, author, received, proof) ==
    LET cv == [epoch |-> epoch, author |-> author, signature |-> Sign(0, <<>>),
               received |-> received, proof |-> proof]
    IN [cv EXCEPT !.signature = Sign(author, CommitVectorDigest(cv))]

\* Core::pb
Pb(c, val) ==
    LET c1 == UpdateVal(c, val)
        echo == NewEcho(ValDigest(val), val.v.author, ValPhase(val), val.v.epoch, c.name)
        c2 == AggregatorAppend(c1, <<echo.epoch, EchoDigest(echo)>>,
                               echo.author, Msg("Echo", echo))
    IN IF ~IsOk(c2) THEN c2
       ELSE Transmit(c2, Msg("Val", val), None)

\* Core::spb
Spb(c, block) == Pb(StoreBlock(c, block), [type |-> "Block", v |-> block])

\* Core::generate_block and Core::start_new_epoch; payload is what
\* MempoolDriver::get returns.
StartNewEpoch(c, epoch, payload) == Spb(c, NewBlock(payload, c.name, epoch, None))

\* A cleanup that moves halt_mark up to the epoch just halted.
CleanupEpochJump(c, block) ==
    LET gone == {k \in DOMAIN c.election_states : k[1] = block.epoch}
    IN [c EXCEPT
        !.epochs_halted = @ \cup {block.epoch},
        !.halt_mark = IF block.epoch > @ THEN block.epoch ELSE @,
        !.blocks_received =
            Retain(@, {k \in DOMAIN @ : k[2] /= block.epoch}),
        !.votes_aggregators =
            Retain(@, {k \in DOMAIN @ : k[1] /= block.epoch}),
        !.election_states =
            Retain(@, {k \in DOMAIN @ : k[1] /= block.epoch}),
        !.dropped = [k \in (DOMAIN @) \cup gone |->
                        IF k \in gone THEN c.election_states[k] ELSE @[k]]]

\* Core::cleanup_epoch.  The election cells dropped from the map stay alive
\* in the tasks that hold a reference (Arc): they are kept in c.dropped.
CleanupEpoch(c, block) ==
    LET halted == c.epochs_halted \cup {block.epoch}
        step == (c.halt_mark + 1) \in halted
        gone == {k \in DOMAIN c.election_states : k[1] = block.epoch}
    IN [c EXCEPT
        !.epochs_halted = IF step THEN halted \ {c.halt_mark + 1} ELSE halted,
        !.halt_mark = IF step THEN @ + 1 ELSE @,
        !.blocks_received =
            Retain(@, {k \in DOMAIN @ : k[2] /= block.epoch}),
        !.votes_aggregators =
            Retain(@, {k \in DOMAIN @ : k[1] /= block.epoch}),
        !.election_states =
            Retain(@, {k \in DOMAIN @ : k[1] /= block.epoch}),
        !.dropped = [k \in (DOMAIN @) \cup gone |->
                        IF k \in gone THEN c.election_states[k] ELSE @[k]]]

\* Core::advance
Advance(c, halt, payload) ==
    LET c1 == [c EXCEPT !.commit_channel = Append(@, halt.block)]
        c2 == CleanupEpoch(c1, halt.block)
        c3 == StartNewEpoch(c2, halt.block.epoch + 1, payload)
    IN IF ~IsOk(c3) THEN c3
       ELSE Transmit(c3, Msg("Halt", halt), None)

\* A fresh ElectionState cell.
NewElectionState == [coin |-> None, wakers |-> <<>>]

\* Core::handle_halt
HandleHalt(c, halt, payload) ==
    LET err == HaltVerify(halt, c.halt_mark, c.epochs_halted)
        key == <<halt.block.epoch, FirstView>>
    IN IF err /= "Ok" THEN Fail(c, err)
       ELSE IF halt.is_optimistic THEN Advance(c, halt, payload)
       ELSE [c EXCEPT
                !.election_states =
                    IF Has(@, key) THEN @ ELSE Put(@, key, NewElectionState),
                !.halt_channel = Append(@, [key |-> key, block |-> halt.block])]

\* Aggregator::take on the bucket `key`, which the caller unwraps: a missing
\* bucket is a panic.  Yields the state and the released votes.
AggregatorTake(c, key, threshold) ==
    IF ~Has(c.votes_aggregators, key)
    THEN [c |-> Panic(c), ret |-> None]
    ELSE LET t == AggTake(c.votes_aggregators[key], threshold)
         IN [c |-> [c EXCEPT !.votes_aggregators = Put(@, key, t.agg)], ret |-> t.ret]

\* Core::invoke_ba
InvokeBa(c, epoch) ==
    LET key == <<epoch, FirstView>>
    IN [c EXCEPT
            !.election_states =
                IF Has(@, key) THEN @ ELSE Put(@, key, NewElectionState),
            !.aba_sync = Append(@, epoch)]

\* Core::handle_done
HandleDone(c, done) ==
    LET err == DoneVerify(done, c.halt_mark, c.epochs_halted)
        epoch == done.coin.epoch
        key == <<epoch, DoneDigest(done)>>
        c1 == AggregatorAppend(c, key, done.author, Msg("Done", done))
        t == AggregatorTake(c1, key, QuorumThreshold)
        cell == Get(t.c.election_states, <<epoch, done.coin.view>>)
    IN IF err /= "Ok" THEN Fail(c, err)
       ELSE IF ~IsOk(c1) THEN c1
       ELSE IF ~IsOk(t.c) \/ ~IsSome(t.ret) THEN t.c
       ELSE IF ~IsSome(cell) THEN Panic(t.c)
       ELSE IF ~IsSome(Unwrap(cell).coin) THEN Panic(t.c)
       ELSE LET coin == Unwrap(Unwrap(cell).coin)
                ba_state == [consistent |-> None,
                             coin |-> Some(coin),
                             leader_block |-> GetBlock(t.c, coin.leader, epoch),
                             wakers |-> <<>>,
                             epoch |-> epoch]
            IN InvokeBa([t.c EXCEPT !.ba_states = Put(@, epoch, ba_state)], epoch)

\* Core::done
Done(c, coin) ==
    LET held == GetBlock(c, coin.leader, coin.epoch)
        done == [author |-> c.name, coin |-> coin,
                 proof |-> IF IsSome(held) THEN Unwrap(held).proof ELSE None]
        c1 == HandleDone(c, done)
    IN IF ~IsOk(c1) THEN c1
       ELSE Transmit(c1, Msg("Done", done), None)

\* A buggy handle_random_coin: a later coin replaces the one that is set.
HandleRandomCoinOverwrite(c, coin) ==
    LET err == RandomCoinVerify(coin, c.halt_mark, c.epochs_halted)
        key == <<coin.epoch, coin.view>>
    IN IF err /= "Ok" THEN Fail(c, err)
       ELSE Done(Transmit([c EXCEPT !.election_states =
                               Put(@, key, [coin |-> Some(coin), wakers |-> <<>>])],
                          Msg("RandomCoin", coin), None),
                 coin)

\* Core::handle_random_coin
HandleRandomCoin(c, coin) ==
    LET err == RandomCoinVerify(coin, c.halt_mark, c.epochs_halted)
        key == <<coin.epoch, coin.view>>
        is_handled_before ==
            Has(c.election_states, key) /\ IsSome(c.election_states[key].coin)
        c1 == [c EXCEPT !.election_states =
                  Put(@, key,
                      [coin |-> IF is_handled_before THEN @[key].coin ELSE Some(coin),
                       wakers |-> <<>>])]
    IN IF err /= "Ok" THEN Fail(c, err)
       ELSE IF is_handled_before THEN c1
       ELSE Done(Transmit(c1, Msg("RandomCoin", coin), None), coin)

\* Core::handle_randommess_share, once the quorum is there: the shares are
\* combined and the random coin is built.
BuildRandomCoin(name, epoch, view, msgs) ==
    LET threshold_signature ==
            CombineSignatures({msgs[i].body.signature_share : i \in DOMAIN msgs})
    IN [author |-> name,
        epoch |-> epoch,
        view |-> view,
        leader |-> ElectLeader(threshold_signature),
        threshold_sig |-> threshold_signature]

\* Core::handle_randommess_share
HandleRandomnessShare(c, share) ==
    LET err == RandomnessShareVerify(share, c.halt_mark, c.epochs_halted)
        key == <<share.epoch, ShareDigest(share.epoch, share.view)>>
        c1 == AggregatorAppend(c, key, share.author, Msg("RandomnessShare", share))
        t == AggregatorTake(c1, key, QuorumThreshold)
    IN IF err /= "Ok" THEN Fail(c, err)
       ELSE IF ~IsOk(c1) THEN c1
       ELSE IF ~IsOk(t.c) \/ ~IsSome(t.ret) THEN t.c
       ELSE HandleRandomCoin(t.c,
                BuildRandomCoin(c.name, share.epoch, share.view, Unwrap(t.ret)))

\* Core::echo
Echo(c, digest, author, phase, epoch) ==
    Transmit(c, Msg("Echo", NewEcho(digest, author, phase, epoch, c.name)), None)

\* Core::value_validation
ValueValidation(block) == BlockCheckSigma(block)

\* A handle_val that does not wait for the payload.
HandleValIgnoreMempool(c, val, available) ==
    LET err == IF val.type = "Block"
               THEN BlockVerify(val.v, c.halt_mark, c.epochs_halted)
               ELSE CommitVectorVerify(val.v, c.halt_mark, c.epochs_halted)
    IN IF err /= "Ok" THEN Fail(c, err)
       ELSE IF val.type = "Block" /\ ~ValueValidation(val.v)
       THEN Fail(c, "InvalidVoteProof")
       ELSE LET c1 == IF val.type = "Block" THEN StoreBlock(c, val.v) ELSE c
                c2 == Echo(c1, ValDigest(val), val.v.author, ValPhase(val), val.v.epoch)
            IN UpdateVal(c2, val)

\* Core::handle_val; available is the answer of MempoolDriver::verify.
HandleVal(c, val, available) ==
    LET err == IF val.type = "Block"
               THEN BlockVerify(val.v, c.halt_mark, c.epochs_halted)
               ELSE CommitVectorVerify(val.v, c.halt_mark, c.epochs_halted)
    IN IF err /= "Ok" THEN Fail(c, err)
       ELSE IF val.type = "Block" /\ ~ValueValidation(val.v)
       THEN Fail(c, "InvalidVoteProof")
       ELSE IF val.type = "Block" /\ ~available THEN c
       ELSE LET c1 == IF val.type = "Block" THEN StoreBlock(c, val.v) ELSE c
                c2 == Echo(c1, ValDigest(val), val.v.author, ValPhase(val), val.v.epoch)
            IN UpdateVal(c2, val)

\* Core::handle_finish, the arm `Some(quorum) => match phase`: what the Core
\* does with the Finishes the aggregator released.
OnFinishQuorum(c, epoch, phase, quorum) ==
    IF phase = "Phase1"
    THEN LET share == [epoch |-> epoch, view |-> FirstView, author |-> c.name,
                       signature_share |->
                           SignShare(c.name, ShareDigest(epoch, FirstView))]
             c3 == HandleRandomnessShare(c, share)
         IN IF ~IsOk(c3) THEN c3
            ELSE Transmit(c3, Msg("RandomnessShare", share), None)
    ELSE LET received == SelectSeq(
                 [i \in DOMAIN quorum |->
                     IF quorum[i].type = "Val" THEN quorum[i].body.v.author ELSE 0],
                 LAMBDA a : a /= 0)
             cv == NewCommitVector(epoch, c.name, received, None)
             c3 == HandleVal(c, [type |-> "CommitVector", v |-> cv], TRUE)
         IN IF ~IsOk(c3) THEN c3
            ELSE Transmit(c3, Msg("Val", [type |-> "CommitVector", v |-> cv]), None)

\* Core::handle_finish
HandleFinish(c, finish) ==
    LET err == IF finish.type = "Block"
               THEN BlockVerify(finish.v, c.halt_mark, c.epochs_halted)
               ELSE CommitVectorVerify(finish.v, c.halt_mark, c.epochs_halted)
        sigma_ok == IF finish.type = "Block"
                    THEN BlockCheckSigma(finish.v)
                    ELSE CommitVectorCheckSigma(finish.v)
        epoch == finish.v.epoch
        c1 == UpdateVal(c, finish)
        c2 == AggregatorAppend(c1, <<epoch, ValDigest(finish)>>,
                               finish.v.author, Msg("Finish", finish))
        t == AggregatorTake(c2, <<epoch, FinishDigest(finish)>>, QuorumThreshold)
    IN IF err /= "Ok" THEN Fail(c, err)
       ELSE IF ~sigma_ok THEN Fail(c, "InvalidVoteProof")
       ELSE IF ~IsOk(c2) THEN c2
       ELSE IF ~IsOk(t.c) \/ ~IsSome(t.ret) THEN t.c
       ELSE OnFinishQuorum(t.c, epoch, ValPhase(finish), Unwrap(t.ret))

\* Core::finish
Finish(c, val) ==
    LET c1 == HandleFinish(UpdateVal(c, val), val)
    IN IF ~IsOk(c1) THEN c1
       ELSE Transmit(c1, Msg("Finish", val), None)

\* Core::handle_echo
HandleEcho(c, echo) ==
    LET err == EchoVerify(echo, c.name, c.halt_mark, c.epochs_halted)
        key == <<echo.epoch, EchoDigest(echo)>>
        c1 == AggregatorAppend(c, key, echo.author, Msg("Echo", echo))
        t == AggregatorTake(c1, key, QuorumThreshold)
    IN IF err /= "Ok" THEN Fail(c, err)
       ELSE IF ~IsOk(c1) THEN c1
       ELSE IF ~IsOk(t.c) \/ ~IsSome(t.ret) THEN t.c
       ELSE LET msgs == Unwrap(t.ret)
                threshold_signature ==
                    CombineSignatures({msgs[i].body.signature_share : i \in DOMAIN msgs})
                block == GetBlock(t.c, c.name, echo.epoch)
                cv == GetCv(t.c, c.name, echo.epoch)
            IN IF echo.phase = "Phase1"
               THEN IF ~IsSome(block) THEN Panic(t.c)
                    ELSE Finish(t.c, [type |-> "Block",
                                      v |-> [Unwrap(block) EXCEPT
                                                !.proof = Some(threshold_signature)]])
               ELSE IF ~IsSome(cv) THEN Panic(t.c)
                    ELSE Finish(t.c, [type |-> "CommitVector",
                                      v |-> [Unwrap(cv) EXCEPT
                                                !.proof = Some(threshold_signature)]])

\* Core::get_optimistic_leader: round-robin over the sorted committee keys.
GetOptimisticLeader(epoch) ==
    SetToSortedSeq(Authorities)[(epoch % CommitteeSize) + 1]

\* Core::handle_request_help
HandleRequestHelp(c, epoch, requester) ==
    LET block == GetBlock(c, GetOptimisticLeader(epoch), epoch)
    IN IF IsSome(block) /\ IsSome(Unwrap(block).proof)
       THEN Transmit(c, Msg("Help", Unwrap(block)), Some(requester))
       ELSE c

\* Core::handle_help
HandleHelp(c, optimistic_sigma1) ==
    LET err == BlockVerify(optimistic_sigma1, c.halt_mark, c.epochs_halted)
        epoch == optimistic_sigma1.epoch
    IN IF err /= "Ok" THEN Fail(c, err)
       ELSE IF ~BlockCheckSigma(optimistic_sigma1) THEN Fail(c, "InvalidSignatureShare")
       ELSE IF ~Has(c.ba_states, epoch) THEN Panic(c)
       ELSE IF IsSome(c.ba_states[epoch].leader_block) THEN c
       ELSE [c EXCEPT !.ba_states[epoch].leader_block = Some(optimistic_sigma1),
                      !.ba_states[epoch].wakers = <<>>]

\* ------------------------------------------------------------- the run loop
\* The authorities whose Core is modelled; the others are the environment.
Cores == {11, 12}

coreVars == <<votes_aggregators, election_states, ba_states, blocks_received,
              commit_vectors_received, halt_mark, epochs_halted>>
outVars == <<store, commit_channel, network, halt_channel, aba_sync>>
taskVars == <<advance_channel, aba_feedback, aba_waiting, ba_decision>>
loopVars == <<pc, panicked, result, event, events>>
aggVars == <<aggregator, agg_out, agg_releases>>
vars == <<coreVars, outVars, taskVars, dropped, loopVars, aggVars, call>>

\* The state a handler of authority n starts from.
Self(n) ==
    [name |-> n,
     votes_aggregators |-> votes_aggregators[n],
     election_states |-> election_states[n],
     ba_states |-> ba_states[n],
     blocks_received |-> blocks_received[n],
     commit_vectors_received |-> commit_vectors_received[n],
     halt_mark |-> halt_mark[n],
     epochs_halted |-> epochs_halted[n],
     store |-> store[n],
     commit_channel |-> commit_channel[n],
     network |-> network[n],
     halt_channel |-> halt_channel[n],
     aba_sync |-> aba_sync[n],
     dropped |-> dropped[n],
     result |-> "Ok",
     panicked |-> FALSE]

\* The state a handler of authority n leaves.
Return(n, c) ==
    /\ votes_aggregators' = [votes_aggregators EXCEPT ![n] = c.votes_aggregators]
    /\ election_states' = [election_states EXCEPT ![n] = c.election_states]
    /\ ba_states' = [ba_states EXCEPT ![n] = c.ba_states]
    /\ blocks_received' = [blocks_received EXCEPT ![n] = c.blocks_received]
    /\ commit_vectors_received' =
           [commit_vectors_received EXCEPT ![n] = c.commit_vectors_received]
    /\ halt_mark' = [halt_mark EXCEPT ![n] = c.halt_mark]
    /\ epochs_halted' = [epochs_halted EXCEPT ![n] = c.epochs_halted]
    /\ store' = [store EXCEPT ![n] = c.store]
    /\ commit_channel' = [commit_channel EXCEPT ![n] = c.commit_channel]
    /\ network' = [network EXCEPT ![n] = c.network]
    /\ halt_channel' = [halt_channel EXCEPT ![n] = c.halt_channel]
    /\ aba_sync' = [aba_sync EXCEPT ![n] = c.aba_sync]
    /\ dropped' = [dropped EXCEPT ![n] = c.dropped]
    /\ result' = [result EXCEPT ![n] = c.result]
    /\ panicked' = [panicked EXCEPT ![n] = c.panicked]

\* The epoch a consensus message is about.
MsgEpoch(m) ==
    CASE m.type \in {"Val", "Finish"} -> m.body.v.epoch
      [] m.type = "Halt" -> m.body.block.epoch
      [] m.type = "Done" -> m.body.coin.epoch
      [] OTHER -> m.body.epoch

\* The author a consensus message names (the requester of a RequestHelp).
MsgAuthor(m) ==
    CASE m.type \in {"Val", "Finish"} -> m.body.v.author
      [] m.type = "RequestHelp" -> m.body.requester
      [] OTHER -> m.body.author

\* What the loop remembers of the event it handles: where it came from, whom
\* it names, how its epoch stood when the handler started, and whether it is
\* a Val(Block) whose payload the mempool does not have.
Event(n, src, type, epoch, author) ==
    [src |-> src, type |-> type, epoch |-> epoch, author |-> author,
     missing_payload |-> FALSE,
     halted |-> ~EpochLive(epoch, halt_mark[n], epochs_halted[n]),
     committed |-> \E i \in DOMAIN commit_channel[n] : commit_channel[n][i].epoch = epoch]

Running(n) == pc[n] = "run" /\ ~panicked[n]

\* One inbound consensus message m, handled to the state c.
DeliverWithin(n, m, c, budget) ==
    /\ Running(n)
    /\ events[n] < budget
    /\ Return(n, c)
    /\ events' = [events EXCEPT ![n] = @ + 1]
    /\ \E missing \in BOOLEAN :
          event' = [event EXCEPT ![n] =
                      [Event(n, "core_channel", m.type, MsgEpoch(m), MsgAuthor(m))
                          EXCEPT !.missing_payload = missing]]
    /\ event'[n].missing_payload => m.type = "Val"
    /\ UNCHANGED <<taskVars, pc, aggVars, call>>
Deliver(n, m, c) == DeliverWithin(n, m, c, MaxEvents)

\* Core::run before the loop: start_new_epoch(1).
Boot(n, payload) ==
    /\ pc[n] = "boot"
    /\ LET c == StartNewEpoch(Self(n), 1, payload)
       IN Return(n, IF IsOk(c) THEN c ELSE Panic(c))
    /\ pc' = [pc EXCEPT ![n] = "run"]
    /\ event' = [event EXCEPT ![n] = Event(n, "boot", "", 1, n)]
    /\ UNCHANGED <<taskVars, events, aggVars, call>>

\* The arms of the select of Core::run on core_channel.
RecvVal(n, val, available) ==
    /\ Deliver(n, Msg("Val", val), HandleVal(Self(n), val, available))
    /\ event'[n].missing_payload = (val.type = "Block" /\ ~available)
RecvEcho(n, echo) ==
    Deliver(n, Msg("Echo", echo), HandleEcho(Self(n), echo))
RecvFinish(n, finish) ==
    Deliver(n, Msg("Finish", finish), HandleFinish(Self(n), finish))
RecvHalt(n, halt, payload) ==
    Deliver(n, Msg("Halt", halt), HandleHalt(Self(n), halt, payload))
RecvRandomnessShare(n, share) ==
    Deliver(n, Msg("RandomnessShare", share), HandleRandomnessShare(Self(n), share))
RecvRandomCoin(n, coin) ==
    Deliver(n, Msg("RandomCoin", coin), HandleRandomCoin(Self(n), coin))
RecvDone(n, done) ==
    Deliver(n, Msg("Done", done), HandleDone(Self(n), done))
RecvRequestHelp(n, epoch, requester) ==
    Deliver(n, Msg("RequestHelp", [epoch |-> epoch, requester |-> requester]),
            HandleRequestHelp(Self(n), epoch, requester))
RecvHelp(n, block) ==
    Deliver(n, Msg("Help", block), HandleHelp(Self(n), block))

\* The arm on advance_channel.
RecvAdvance(n, payload) ==
    /\ Running(n)
    /\ advance_channel[n] /= <<>>
    /\ Return(n, Advance(Self(n), Head(advance_channel[n]), payload))
    /\ advance_channel' = [advance_channel EXCEPT ![n] = Tail(@)]
    /\ event' = [event EXCEPT ![n] =
                    Event(n, "advance_channel", "Halt",
                          Head(advance_channel[n]).block.epoch,
                          Head(advance_channel[n]).author)]
    /\ UNCHANGED <<aba_feedback, aba_waiting, ba_decision, pc, events,
                   aggVars, call>>

\* The arm on aba_sync_feedback_receiver.
RecvAbaFeedback(n) ==
    /\ Running(n)
    /\ aba_feedback[n] /= <<>>
    /\ LET fb == Head(aba_feedback[n])
       IN /\ Return(n, IF fb.is_optimistic_path_success
                       THEN Transmit(Self(n),
                                     Msg("RequestHelp",
                                         [epoch |-> fb.epoch, requester |-> n]),
                                     None)
                       ELSE IF IsSome(fb.coin) THEN Done(Self(n), Unwrap(fb.coin))
                       ELSE Panic(Self(n)))
          /\ event' = [event EXCEPT ![n] = Event(n, "aba_feedback", "", fb.epoch, n)]
    /\ aba_feedback' = [aba_feedback EXCEPT ![n] = Tail(@)]
    /\ UNCHANGED <<advance_channel, aba_waiting, ba_decision, pc, events,
                   aggVars, call>>

\* ------------------------------------------------------ synchronizer tasks
\* The ElectionState cell a task holds a reference to.
ElectionCell(n, key) ==
    IF Has(election_states[n], key) THEN election_states[n][key] ELSE dropped[n][key]

\* Synchronizer::run_sync_halt: a provisional Halt whose election cell holds
\* the coin becomes a Halt on the advance channel.
SyncHalt(n) ==
    /\ ~panicked[n]
    /\ \E i \in DOMAIN halt_channel[n] :
          /\ IsSome(ElectionCell(n, halt_channel[n][i].key).coin)
          /\ advance_channel' = [advance_channel EXCEPT ![n] =
                Append(@, [block |-> halt_channel[n][i].block,
                           author |-> halt_channel[n][i].block.author,
                           is_optimistic |-> FALSE])]
          /\ halt_channel' = [halt_channel EXCEPT ![n] =
                SubSeq(@, 1, i - 1) \o SubSeq(@, i + 1, Len(@))]
    /\ UNCHANGED <<coreVars, store, commit_channel, network, aba_sync,
                   aba_feedback, aba_waiting, ba_decision, dropped, loopVars,
                   aggVars, call>>

\* Synchronizer::run_sync_aba: Binary Agreement returns for the epoch at the
\* head of the invocations; the bit is the one every authority gets.
BaReturn(n, output) ==
    /\ ~panicked[n]
    /\ aba_sync[n] /= <<>>
    /\ LET epoch == Head(aba_sync[n])
       IN /\ Has(ba_decision, epoch) => ba_decision[epoch] = output
          /\ ba_decision' = Put(ba_decision, epoch, output)
          /\ ba_states' = [ba_states EXCEPT ![n][epoch].consistent = Some(output)]
          /\ aba_feedback' = [aba_feedback EXCEPT ![n] =
                Append(@, [epoch |-> epoch,
                           is_optimistic_path_success |-> output,
                           coin |-> ba_states[n][epoch].coin])]
          /\ aba_waiting' = [aba_waiting EXCEPT ![n] =
                IF output THEN @ \cup {epoch} ELSE @]
    /\ aba_sync' = [aba_sync EXCEPT ![n] = Tail(@)]
    /\ UNCHANGED <<votes_aggregators, election_states, blocks_received,
                   commit_vectors_received, halt_mark, epochs_halted, store,
                   commit_channel, network, halt_channel, advance_channel,
                   dropped, loopVars, aggVars, call>>

\* Synchronizer::run_sync_aba: Binary Agreement returned 1 and the leader's
\* block is in the BAState: the block goes to the advance channel.
AbaCommit(n) ==
    /\ ~panicked[n]
    /\ \E epoch \in aba_waiting[n] :
          /\ IsSome(ba_states[n][epoch].leader_block)
          /\ advance_channel' = [advance_channel EXCEPT ![n] =
                Append(@, [block |-> Unwrap(ba_states[n][epoch].leader_block),
                           author |-> n,
                           is_optimistic |-> TRUE])]
          /\ aba_waiting' = [aba_waiting EXCEPT ![n] = @ \ {epoch}]
    /\ UNCHANGED <<coreVars, outVars, aba_feedback, ba_decision, dropped,
                   loopVars, aggVars, call>>

\* ------------------------------------------------------------ the environment
(***************************************************************************)
(* The peers, the network and the mempool are the environment: it hands    *)
(* the Core any frame of a bounded alphabet, well formed or not.           *)
(***************************************************************************)
Epochs == 1..MaxEpoch
\* What MempoolDriver::get returns.
MempoolPayloads == {<<7>>}
Payload == CHOOSE p \in MempoolPayloads : TRUE

Peer1(n) == SetToSortedSeq(Authorities \ {n})[1]
Peer2(n) == SetToSortedSeq(Authorities \ {n})[2]
Stranger == CHOOSE k \in Strangers : \A j \in Strangers : k <= j

\* The block an authority proposes at the start of an epoch.
FreshBlock(a, e) == NewBlock(Payload, a, e, None)
\* A block signed by its author with a proof that verifies over its digest.
ProvedBlock(a, e) ==
    LET b == [payload |-> Payload, author |-> a, signature |-> Sign(0, <<>>),
              epoch |-> e, proof |-> Some(BadSigma)]
    IN [b EXCEPT !.signature = Sign(a, BlockDigest(b)),
                 !.proof = Some(ThresholdSign(BlockDigest(b)))]
\* A block signed by its author whose proof verifies over nothing.
BadProofBlock(a, e) == [ProvedBlock(a, e) EXCEPT !.proof = Some(BadSigma)]
\* A block whose signature is not its author's.
BadSignatureBlock(a, e) == [ProvedBlock(a, e) EXCEPT !.signature = Sign(0, <<>>)]

InBlocks(n) ==
    {ProvedBlock(a, e) : a \in {Peer1(n), Peer2(n)} \cup Strangers, e \in Epochs}
        \cup {FreshBlock(Peer1(n), e) : e \in Epochs}
        \cup {BadProofBlock(Peer1(n), e) : e \in Epochs}
        \cup {BadSignatureBlock(Peer1(n), e) : e \in Epochs}

\* Commit vectors: a quorum of members, and one member short of it.
GoodCv(a, e, proof) ==
    NewCommitVector(e, a, SubSeq(SetToSortedSeq(Authorities), 1, QuorumThreshold), proof)
ShortCv(a, e) ==
    NewCommitVector(e, a,
        SubSeq(SetToSortedSeq(Authorities), 1, QuorumThreshold - 1)
            \o <<SetToSortedSeq(Authorities)[1], Stranger>>, None)
ProvedCv(a, e) ==
    LET cv == GoodCv(a, e, Some(BadSigma))
    IN [cv EXCEPT !.proof = Some(ThresholdSign(CommitVectorDigest(cv)))]

\* The commit vectors a peer sends: the three above, and a quorum of members
\* followed by a repeated member and a key outside the committee.
InCvs(n) ==
    {GoodCv(Peer1(n), e, None) : e \in Epochs}
        \cup {ShortCv(Peer1(n), e) : e \in Epochs}
        \cup {NewCommitVector(e, Peer1(n),
                   GoodCv(Peer1(n), e, None).received
                       \o <<SetToSortedSeq(Authorities)[1], Stranger>>, None) :
                 e \in Epochs}
        \cup {ProvedCv(Peer1(n), e) : e \in Epochs}

InVals(n) ==
    {[type |-> "Block", v |-> b] : b \in InBlocks(n)}
        \cup {[type |-> "CommitVector", v |-> cv] : cv \in InCvs(n)}

InEchoes(n) ==
    {NewEcho(BlockDigest(FreshBlock(n, e)), n, "Phase1", e, a) :
        a \in {Peer1(n), Peer2(n)} \cup Strangers, e \in Epochs}
      \cup {NewEcho(BlockDigest(FreshBlock(n, e)), Peer1(n), "Phase1", e, Peer1(n)) :
              e \in Epochs}
      \cup {NewEcho(BlockDigest(ProvedBlock(n, e)), n, "Phase1", e, Peer2(n)) :
              e \in Epochs}
      \cup {[NewEcho(BlockDigest(FreshBlock(n, e)), n, "Phase1", e, Peer1(n))
                EXCEPT !.signature_share = SignShare(0, <<>>)] : e \in Epochs}
      \cup {NewEcho(CommitVectorDigest(GoodCv(n, e, None)), n, "Phase2", e, Peer1(n)) :
              e \in Epochs}

NewRandomnessShare(e, v, a) ==
    [epoch |-> e, view |-> v, author |-> a,
     signature_share |-> SignShare(a, ShareDigest(e, v))]

InShares(n) ==
    {NewRandomnessShare(e, FirstView, a) :
        a \in (Authorities \ {n}) \cup Strangers, e \in Epochs}
      \cup {[NewRandomnessShare(e, FirstView, Peer1(n))
                EXCEPT !.signature_share = SignShare(0, <<>>)] : e \in Epochs}

\* The coin of (e, v) as authority a builds it.
Coin(a, e, v) ==
    [author |-> a, epoch |-> e, view |-> v,
     leader |-> ElectLeader(ThresholdSign(ShareDigest(e, v))),
     threshold_sig |-> ThresholdSign(ShareDigest(e, v))]
\* The same coin naming the next key as leader.
WrongLeaderCoin(a, e, v) ==
    [Coin(a, e, v) EXCEPT
        !.leader = CHOOSE k \in Authorities : k /= Coin(a, e, v).leader]

InCoins(n) ==
    {Coin(a, e, FirstView) : a \in {Peer1(n), Peer2(n)}, e \in Epochs}
      \cup {WrongLeaderCoin(Peer1(n), e, FirstView) : e \in Epochs}
      \cup {[Coin(Peer1(n), e, FirstView) EXCEPT !.threshold_sig = BadSigma] :
              e \in Epochs}

InDones(n) ==
    {[author |-> a, coin |-> Coin(a, e, FirstView), proof |-> None] :
        a \in {Peer1(n), Peer2(n)} \cup Strangers, e \in Epochs}
      \cup {[author |-> Peer2(n), coin |-> Coin(Peer2(n), e, FirstView),
             proof |-> Some(BadSigma)] : e \in Epochs}
      \cup {[author |-> Peer1(n), coin |-> WrongLeaderCoin(Peer1(n), e, FirstView),
             proof |-> None] : e \in Epochs}

InHalts(n) ==
    {[block |-> b, author |-> Peer1(n), is_optimistic |-> TRUE] : b \in InBlocks(n)}
      \cup {[block |-> ProvedBlock(a, e), author |-> Peer1(n), is_optimistic |-> FALSE] :
              a \in {Peer1(n), Peer2(n)}, e \in Epochs}
      \cup {[block |-> ProvedBlock(Peer1(n), e), author |-> Stranger,
             is_optimistic |-> TRUE] : e \in Epochs}

\* The alphabet of every modelled authority.
In ==
    [n \in Cores |->
        [vals |-> InVals(n), echoes |-> InEchoes(n), shares |-> InShares(n),
         coins |-> InCoins(n), dones |-> InDones(n), halts |-> InHalts(n),
         blocks |-> InBlocks(n), peer |-> Peer1(n)]]

\* ------------------------------------------------------------ specifications
EmptyAt(S) == [n \in S |-> EmptyMap]

\* Core::new, for each authority of S.
InitCores(S) ==
    /\ votes_aggregators = EmptyAt(S)
    /\ election_states = EmptyAt(S)
    /\ ba_states = EmptyAt(S)
    /\ blocks_received = EmptyAt(S)
    /\ commit_vectors_received = EmptyAt(S)
    /\ halt_mark = [n \in S |-> 0]
    /\ epochs_halted = [n \in S |-> {}]
    /\ store = EmptyAt(S)
    /\ commit_channel = [n \in S |-> <<>>]
    /\ network = [n \in S |-> <<>>]
    /\ halt_channel = [n \in S |-> <<>>]
    /\ aba_sync = [n \in S |-> <<>>]
    /\ advance_channel = [n \in S |-> <<>>]
    /\ aba_feedback = [n \in S |-> <<>>]
    /\ aba_waiting = [n \in S |-> {}]
    /\ ba_decision = EmptyMap
    /\ dropped = EmptyAt(S)
    /\ pc = [n \in S |-> "boot"]
    /\ panicked = [n \in S |-> FALSE]
    /\ result = [n \in S |-> "Ok"]
    /\ event = [n \in S |->
                  [src |-> "", type |-> "", epoch |-> 0, author |-> 0,
                   missing_payload |-> FALSE,
                   halted |-> FALSE, committed |-> FALSE]]
    /\ events = [n \in S |-> 0]
InitCore == InitCores(Cores)

InitIdle ==
    /\ aggregator = NewAggregator
    /\ agg_out = [err |-> "Ok", ret |-> None, author |-> 0]
    /\ agg_releases = 0
    /\ call = [op |-> ""]

Init ==
    /\ InitCore
    /\ InitIdle

\* Every step one Core can take.
Step(n) ==
    \/ \E p \in MempoolPayloads : Boot(n, p)
    \/ \E val \in In[n].vals, available \in BOOLEAN : RecvVal(n, val, available)
    \/ \E echo \in In[n].echoes : RecvEcho(n, echo)
    \/ \E finish \in In[n].vals : RecvFinish(n, finish)
    \/ \E halt \in In[n].halts, p \in MempoolPayloads : RecvHalt(n, halt, p)
    \/ \E share \in In[n].shares : RecvRandomnessShare(n, share)
    \/ \E coin \in In[n].coins : RecvRandomCoin(n, coin)
    \/ \E done \in In[n].dones : RecvDone(n, done)
    \/ \E e \in Epochs : RecvRequestHelp(n, e, In[n].peer)
    \/ \E block \in In[n].blocks : RecvHelp(n, block)
    \/ \E p \in MempoolPayloads : RecvAdvance(n, p)
    \/ RecvAbaFeedback(n)
    \/ SyncHalt(n)
    \/ \E output \in BOOLEAN : BaReturn(n, output)
    \/ AbaCommit(n)

\* One Core, authority 11, against the environment.
Next == Step(11)

Spec == Init /\ [][Next]_vars

\* The Core variables of a specification in which no Core runs.
idleVars == <<coreVars, outVars, taskVars, dropped, loopVars>>

\* ------------------------------------------------- the Aggregator on its own
\* The kind of message a bucket collects.
AggKinds == {"RandomnessShare", "Echo", "Finish", "Done"}

InitAgg ==
    /\ InitCore
    /\ aggregator = NewAggregator
    /\ agg_out = [err |-> "Ok", ret |-> None, author |-> 0]
    /\ agg_releases = 0
    /\ call \in {[op |-> "Aggregator", kind |-> k] : k \in AggKinds}

\* One call of Aggregator::append.
AppendVote(author) ==
    /\ LET r == AggAppend(aggregator, author, Msg(call.kind, [author |-> author]))
       IN /\ aggregator' = r.agg
          /\ agg_out' = [err |-> r.err, ret |-> r.ret, author |-> author]
          /\ agg_releases' = agg_releases + (IF IsSome(r.ret) THEN 1 ELSE 0)
    /\ UNCHANGED <<idleVars, call>>

NextAgg == \E author \in Authorities \cup Strangers : AppendVote(author)

SpecAgg == InitAgg /\ [][NextAgg]_vars

\* C7: an Aggregator returns a bundle at most once in its lifetime, whatever
\* the kind of its votes and whatever is appended after the release.
C7_ReleasesAtMostOnce == agg_releases <= 1

\* ---------------------------------------------------- Block::digest on its own
RECURSIVE SeqsUpTo(_, _)
SeqsUpTo(S, len) ==
    IF len = 0 THEN {<<>>}
    ELSE SeqsUpTo(S, len - 1)
            \cup {Append(q, x) : q \in {r \in SeqsUpTo(S, len - 1) : Len(r) = len - 1},
                                 x \in S}

DigestBlocks ==
    {[payload |-> p, author |-> a, signature |-> sg, epoch |-> e, proof |-> pr] :
        p \in SeqsUpTo({7, 8}, MaxPayloadLen),
        a \in {11, 12},
        sg \in {Sign(11, <<11>>), Sign(0, <<>>)},
        e \in Epochs,
        pr \in {None, Some(BadSigma), Some(ThresholdSign(<<1>>))}}

InitDigest ==
    /\ InitCore
    /\ aggregator = NewAggregator
    /\ agg_out = [err |-> "Ok", ret |-> None, author |-> 0]
    /\ agg_releases = 0
    /\ call \in {[op |-> "Block::digest", a |-> x, b |-> y, da |-> None, db |-> None] :
                    x \in DigestBlocks, y \in DigestBlocks}

\* Block::digest of the two blocks.
HashBlocks ==
    /\ call.op = "Block::digest"
    /\ call' = [call EXCEPT !.op = "hashed",
                            !.da = Some(BlockDigest(call.a)),
                            !.db = Some(BlockDigest(call.b))]
    /\ UNCHANGED <<idleVars, aggVars>>

NextDigest == HashBlocks

SpecDigest == InitDigest /\ [][NextDigest]_vars

SameHashedFields(x, y) ==
    /\ x.author = y.author
    /\ x.epoch = y.epoch
    /\ x.payload = y.payload
    /\ IsSome(x.proof) = IsSome(y.proof)

\* C10: Block::digest is a function of (author, epoch, payload, proof-present
\* bit) only: blocks that agree on these four have one digest, whatever their
\* signatures and the values of their proofs; blocks that agree on author,
\* epoch and payload and differ in whether a proof is present have different
\* digests.
C10_DigestStability ==
    call.op = "hashed" =>
        /\ SameHashedFields(call.a, call.b) => call.da = call.db
        /\ (/\ call.a.author = call.b.author
            /\ call.a.epoch = call.b.epoch
            /\ call.a.payload = call.b.payload
            /\ IsSome(call.a.proof) /= IsSome(call.b.proof)) => call.da /= call.db

\* Two blocks with different signatures and different present proofs were
\* hashed to one digest.
C10_Witness ==
    /\ call.op = "hashed"
    /\ SameHashedFields(call.a, call.b)
    /\ IsSome(call.a.proof)
    /\ call.a.proof /= call.b.proof
    /\ call.a.signature /= call.b.signature
    /\ call.da = call.db

\* ------------------------------------------------------ the coin on its own
Views == 1..MaxView

\* Every quorum of committee members, in key order.
Quorums == {Q \in SUBSET Authorities : Cardinality(Q) >= QuorumThreshold}
ShareMsgs(Q, e, v) ==
    LET order == SetToSortedSeq(Q)
    IN [i \in DOMAIN order |->
            Msg("RandomnessShare", NewRandomnessShare(e, v, order[i]))]

CoinCandidates ==
    {[author |-> 12, epoch |-> e, view |-> v, leader |-> l,
      threshold_sig |-> IF good THEN ThresholdSign(ShareDigest(e, v)) ELSE BadSigma] :
        e \in Epochs, v \in Views, l \in Authorities, good \in BOOLEAN}

InitCoin ==
    /\ InitCore
    /\ aggregator = NewAggregator
    /\ agg_out = [err |-> "Ok", ret |-> None, author |-> 0]
    /\ agg_releases = 0
    /\ call \in {[op |-> "RandomCoin::verify", coin |-> x, hm |-> hm,
                  msgs |-> <<>>, ret |-> ""] :
                    x \in CoinCandidates, hm \in 0..1}
                \cup {[op |-> "handle_randommess_share",
                       coin |-> [author |-> 11, epoch |-> e, view |-> v, leader |-> 0,
                                 threshold_sig |-> BadSigma],
                       hm |-> 0, msgs |-> ShareMsgs(Q, e, v), ret |-> ""] :
                        Q \in Quorums, e \in Epochs, v \in Views}

\* The Core builds the coin from a released quorum of shares.
BuildCoin ==
    /\ call.op = "handle_randommess_share"
    /\ call' = [call EXCEPT
                  !.op = "built",
                  !.coin = BuildRandomCoin(11, call.coin.epoch, call.coin.view, call.msgs)]
    /\ UNCHANGED <<idleVars, aggVars>>

\* RandomCoin::verify of a coin received, or of the coin just built.
VerifyCoin ==
    /\ call.op \in {"RandomCoin::verify", "built"}
    /\ call' = [call EXCEPT
                  !.op = "verified",
                  !.ret = RandomCoinVerify(call.coin, call.hm, {})]
    /\ UNCHANGED <<idleVars, aggVars>>

NextCoin == BuildCoin \/ VerifyCoin

SpecCoin == InitCoin /\ [][NextCoin]_vars

\* 256^k mod n.
RECURSIVE Pow256Mod(_, _)
Pow256Mod(k, n) == IF k = 0 THEN 1 % n ELSE (256 * Pow256Mod(k - 1, n)) % n

\* The canonical derivation: the committee key that has exactly
\* int(sig[0..8], big-endian) mod n smaller committee keys.
CanonicalId(sigma) ==
    LET term(i) == (sigma.bytes[i] * Pow256Mod(8 - i, CommitteeSize)) % CommitteeSize
    IN (term(1) + term(2) + term(3) + term(4) + term(5) + term(6) + term(7) + term(8))
            % CommitteeSize
CanonicalLeader(sigma) ==
    CHOOSE k \in Authorities :
        Cardinality({j \in Authorities : j < k}) = CanonicalId(sigma)

\* C9: the leader of every coin the Core builds from a share quorum, and of
\* every coin RandomCoin::verify accepts, is the canonical one; a coin of a
\* live epoch with a valid threshold signature that names another leader is
\* rejected with RandomCoinWithWrongLeader.
C9_LeaderDeterminism ==
    /\ call.op = "built" => call.coin.leader = CanonicalLeader(call.coin.threshold_sig)
    /\ (call.op = "verified" /\ call.ret = "Ok") =>
            call.coin.leader = CanonicalLeader(call.coin.threshold_sig)
    /\ (/\ call.op = "verified"
        /\ call.coin.epoch > call.hm
        /\ TsVerify(call.coin.threshold_sig, ShareDigest(call.coin.epoch, call.coin.view))
        /\ call.coin.leader /= CanonicalLeader(call.coin.threshold_sig))
            => call.ret = "RandomCoinWithWrongLeader"

\* A coin the Core built from a quorum was accepted by RandomCoin::verify, its
\* signature being one whose first and last byte disagree modulo n.
C9_Witness ==
    /\ call.op = "verified"
    /\ call.ret = "Ok"
    /\ call.msgs /= <<>>
    /\ call.coin.threshold_sig.bytes[1] % CommitteeSize
            /= call.coin.threshold_sig.bytes[8] % CommitteeSize

\* --------------------------------------------- properties of the running Core
\* The blocks authority n has pushed to its commit channel.
Committed(n) == {commit_channel[n][i] : i \in DOMAIN commit_channel[n]}

\* C2: for every authority and every epoch, advance is executed at most once:
\* no two positions of the commit channel hold blocks of the same epoch.
C2_CommitOncePerEpoch ==
    \A n \in Cores : \A i, j \in DOMAIN commit_channel[n] :
        i /= j => commit_channel[n][i].epoch /= commit_channel[n][j].epoch

\* C3: every block pushed to the commit channel has an author with positive
\* stake and a proof that is a valid threshold signature over its digest.
C3_CommittedBlocksValid ==
    \A n \in Cores : \A b \in Committed(n) :
        Stake(b.author) > 0 /\ BlockCheckSigma(b)

\* C4: the blocks pushed to the commit channel have the epochs 1, 2, 3, ...
\* consecutively, with no gap and no reordering.
C4_CommitOrderIsEpochOrder ==
    \A n \in Cores : \A i \in DOMAIN commit_channel[n] :
        commit_channel[n][i].epoch = i

\* C5: the handler of an inbound message whose epoch is at or below halt_mark
\* or in epochs_halted leaves all Core state unchanged and sends nothing.
C5_HaltWindowSoundness ==
    [][\A n \in Cores :
          (events'[n] /= events[n] /\ event'[n].halted) =>
              /\ votes_aggregators'[n] = votes_aggregators[n]
              /\ election_states'[n] = election_states[n]
              /\ ba_states'[n] = ba_states[n]
              /\ blocks_received'[n] = blocks_received[n]
              /\ commit_vectors_received'[n] = commit_vectors_received[n]
              /\ halt_mark'[n] = halt_mark[n]
              /\ epochs_halted'[n] = epochs_halted[n]
              /\ network'[n] = network[n]
              /\ commit_channel'[n] = commit_channel[n]
              /\ halt_channel'[n] = halt_channel[n]
              /\ aba_sync'[n] = aba_sync[n]]_vars

\* A message of a halted epoch was delivered.
C5_Witness ==
    \E n \in Cores : event[n].src = "core_channel" /\ event[n].halted

\* C6: after an authority has committed epoch e, every consensus message of
\* epoch e delivered later is rejected with MessageWithHaltedEpoch.
C6_ReplayRejectedAsHalted ==
    \A n \in Cores :
        (event[n].src = "core_channel" /\ event[n].committed) =>
            result[n] = "MessageWithHaltedEpoch"

\* C8: a coin that is set in ElectionState(epoch, view) is never replaced by
\* another coin and never reset to none, whether the cell is still in the map
\* or was retired from it.
C8_CoinUniqueness ==
    [][\A n \in Cores : \A key \in DOMAIN election_states[n] :
          IsSome(election_states[n][key].coin) =>
              IF Has(election_states'[n], key)
              THEN election_states'[n][key].coin = election_states[n][key].coin
              ELSE /\ Has(dropped'[n], key)
                   /\ dropped'[n][key].coin = election_states[n][key].coin]_vars

\* A valid coin of another author was handled for an (epoch, view) whose coin
\* was already set.
C8_Witness ==
    \E n \in Cores :
        /\ event[n].type = "RandomCoin"
        /\ result[n] = "Ok"
        /\ Has(election_states[n], <<event[n].epoch, FirstView>>)
        /\ IsSome(election_states[n][<<event[n].epoch, FirstView>>].coin)
        /\ Unwrap(election_states[n][<<event[n].epoch, FirstView>>].coin).author
                /= event[n].author

\* ------------------------------------------------------------- two Cores
\* The one faulty authority; the fourth authority is honest and not modelled.
Faulty == CHOOSE a \in Authorities \ Cores : TRUE

\* The Halts the faulty authority can send: each carries a block some
\* authority proposed and got a proof for in the first Provable Broadcast.
AgreementHalts ==
    {[block |-> ProvedBlock(a, e), author |-> Faulty, is_optimistic |-> o] :
        a \in Authorities \ Cores, e \in Epochs, o \in BOOLEAN}

PairBudget(n) == events[11] + events[12] < MaxPairEvents

StepAgreement(n) ==
    \/ \E p \in MempoolPayloads : Boot(n, p)
    \/ \E halt \in AgreementHalts, p \in MempoolPayloads :
          PairBudget(n) /\ RecvHalt(n, halt, p)
    \/ \E e \in Epochs : PairBudget(n) /\ RecvRandomCoin(n, Coin(Faulty, e, FirstView))
    \/ \E p \in MempoolPayloads : RecvAdvance(n, p)
    \/ SyncHalt(n)

\* Both Cores, authorities 11 and 12, against the faulty authority.
NextAgreement == \E n \in Cores : StepAgreement(n)

SpecAgreement == Init /\ [][NextAgreement]_vars

\* C1: two honest authorities that each commit a block for the same epoch
\* commit the same block, whichever path the commits took.
C1_Agreement ==
    \A m, n \in Cores : \A b \in Committed(m), d \in Committed(n) :
        (m /= n /\ b.epoch = d.epoch) => b = d

\* The Echoes for values of other authors among the frames sent.
PeerEchoes(n, sent) ==
    {i \in DOMAIN sent : sent[i].msg.type = "Echo" /\ sent[i].msg.body.digest_author /= n}

\* C12: handling a Val(Block) whose payload the mempool reports unavailable
\* sends nothing, stores nothing and caches nothing; an Echo for the value of
\* another author is sent only by the handling of a Val whose payload is
\* available.
C12_MissingPayload ==
    [][\A n \in Cores :
          /\ (events'[n] /= events[n] /\ event'[n].missing_payload) =>
                /\ network'[n] = network[n]
                /\ store'[n] = store[n]
                /\ blocks_received'[n] = blocks_received[n]
          /\ PeerEchoes(n, network'[n]) /= PeerEchoes(n, network[n]) =>
                /\ events'[n] /= events[n]
                /\ event'[n].type = "Val"
                /\ ~event'[n].missing_payload]_vars

\* A valid Val(Block) was handled while its payload was missing.
C12_Witness ==
    \E n \in Cores :
        /\ event[n].type = "Val"
        /\ event[n].missing_payload
        /\ ~event[n].halted
        /\ result[n] = "Ok"

\* The epochs authority n has committed.
CommittedEpochs(n) == {b.epoch : b \in Committed(n)}

\* C15: halt_mark never passes a gap: every epoch in 1..halt_mark has been
\* committed by the authority, and halt_mark never decreases.
C15_HaltMarkBelowGap ==
    /\ [](\A n \in Cores : \A e \in 1..halt_mark[n] : e \in CommittedEpochs(n))
    /\ [][\A n \in Cores : halt_mark'[n] >= halt_mark[n]]_vars

\* Epoch 2 was committed before epoch 1 and halt_mark stayed at 0.
C15_Witness ==
    \E n \in Cores :
        /\ 2 \in CommittedEpochs(n)
        /\ 1 \notin CommittedEpochs(n)
        /\ 2 \in epochs_halted[n]
        /\ halt_mark[n] = 0

\* C18: after every cleanup_epoch halt_mark + 1 is not in epochs_halted:
\* halt_mark is the largest k such that the epochs 1..k are all halted.
C18_CascadingHaltMark ==
    \A n \in Cores : (halt_mark[n] + 1) \notin epochs_halted[n]

\* The epochs of the keys of the five per-epoch maps of a Core state c.
KeyEpochs(c) ==
    [votes_aggregators |-> {k[1] : k \in DOMAIN c.votes_aggregators},
     election_states |-> {k[1] : k \in DOMAIN c.election_states},
     ba_states |-> DOMAIN c.ba_states,
     blocks_received |-> {k[2] : k \in DOMAIN c.blocks_received},
     commit_vectors_received |-> {k[2] : k \in DOMAIN c.commit_vectors_received}]
AllKeyEpochs(c) ==
    KeyEpochs(c).votes_aggregators \cup KeyEpochs(c).election_states
        \cup KeyEpochs(c).ba_states \cup KeyEpochs(c).blocks_received
        \cup KeyEpochs(c).commit_vectors_received

\* The entries of a map whose key has another epoch than e, i being the
\* position of the epoch in the key (0: the key is the epoch).
OtherEpochs(map, i, e) ==
    LET keep == {k \in DOMAIN map : (IF i = 0 THEN k ELSE k[i]) /= e}
    IN [k \in keep |-> map[k]]

\* C19: right after cleanup_epoch for a block of epoch e no entry of epoch e
\* remains in votes_aggregators, election_states, ba_states, blocks_received
\* or commit_vectors_received, and the entries of every other epoch are as
\* they were.
C19_CompleteEpochCleanup ==
    \A n \in Cores : \A b \in In[n].blocks :
        LET c == CleanupEpoch(Self(n), b)
            e == b.epoch
        IN /\ e \notin AllKeyEpochs(c)
           /\ OtherEpochs(c.votes_aggregators, 1, e)
                    = OtherEpochs(votes_aggregators[n], 1, e)
           /\ OtherEpochs(c.election_states, 1, e)
                    = OtherEpochs(election_states[n], 1, e)
           /\ OtherEpochs(c.ba_states, 0, e) = OtherEpochs(ba_states[n], 0, e)
           /\ OtherEpochs(c.blocks_received, 2, e)
                    = OtherEpochs(blocks_received[n], 2, e)
           /\ OtherEpochs(c.commit_vectors_received, 2, e)
                    = OtherEpochs(commit_vectors_received[n], 2, e)

\* C20: after every handler every key of the five per-epoch maps has an epoch
\* above halt_mark that is not in epochs_halted.
C20_BoundedMemory ==
    \A n \in Cores : \A e \in AllKeyEpochs(Self(n)) :
        e > halt_mark[n] /\ e \notin epochs_halted[n]

\* C16: append with an author already in the used set fails with
\* AuthorityReuse, returns nothing and leaves weight, votes and used as they
\* were, before and after the aggregator released its bundle.
C16_AuthorDeduplication ==
    [][agg_out'.author \in aggregator.used =>
          /\ agg_out'.err = "AuthorityReuse"
          /\ agg_out'.ret = None
          /\ aggregator' = aggregator]_vars

\* An author was appended again after the aggregator had released.
C16_Witness ==
    /\ agg_releases >= 1
    /\ agg_out.err = "AuthorityReuse"
    /\ agg_out.author \in aggregator.used

\* The summed stake of a set of authors.
RECURSIVE SumStake(_)
SumStake(S) ==
    IF S = {} THEN 0
    ELSE LET a == CHOOSE x \in S : TRUE IN Stake(a) + SumStake(S \ {a})

\* C17: an admitted append returns the bundle exactly at the first call at
\* which the summed stake of the authors admitted so far reaches the
\* threshold of the kind of vote, and the bundle holds the messages of all
\* the authors admitted so far; every other admitted append returns none.
C17_ReleaseCondition ==
    [][agg_out'.author \notin aggregator.used =>
          LET threshold == Threshold(Msg(call.kind, <<>>))
          IN /\ agg_out'.err = "Ok"
             /\ IsSome(agg_out'.ret) <=>
                    /\ SumStake(aggregator'.used) >= threshold
                    /\ SumStake(aggregator.used) < threshold
             /\ IsSome(agg_out'.ret) => Unwrap(agg_out'.ret) = aggregator'.votes]_vars


\* ------------------------------------------------ four honest authorities
(***************************************************************************)
(* Every authority of the committee runs the Core; the network hands each  *)
(* frame an authority transmits to every authority it is addressed to, in  *)
(* any order, and the mempool has every payload.  `call` keeps the frames  *)
(* delivered so far as <<sender, index in the sender's log, receiver>>.    *)
(***************************************************************************)
\* The match of Core::run on a frame of core_channel.
Dispatch(c, m) ==
    CASE m.type = "Val" -> HandleVal(c, m.body, TRUE)
      [] m.type = "Echo" -> HandleEcho(c, m.body)
      [] m.type = "Finish" -> HandleFinish(c, m.body)
      [] m.type = "Halt" -> HandleHalt(c, m.body, Payload)
      [] m.type = "RandomnessShare" -> HandleRandomnessShare(c, m.body)
      [] m.type = "RandomCoin" -> HandleRandomCoin(c, m.body)
      [] m.type = "Done" -> HandleDone(c, m.body)
      [] m.type = "RequestHelp" ->
            HandleRequestHelp(c, m.body.epoch, m.body.requester)
      [] m.type = "Help" -> HandleHelp(c, m.body)

\* The frames sent to authority n that core_channel has not handed it yet.
Pending(n) ==
    {f \in UNION {{<<from, i>> : i \in DOMAIN network[from]} :
                     from \in Authorities \ {n}} :
        /\ network[f[1]][f[2]].to \in {None, Some(n)}
        /\ <<f[1], f[2], n>> \notin call.delivered}

\* The core_channel arm of Core::run on frame i of authority `from`.
RecvFrame(n, from, i) ==
    /\ Running(n)
    /\ <<from, i>> \in Pending(n)
    /\ LET m == network[from][i].msg
       IN /\ Return(n, Dispatch(Self(n), m))
          /\ event' = [event EXCEPT ![n] =
                Event(n, "core_channel", m.type, MsgEpoch(m), MsgAuthor(m))]
    /\ events' = [events EXCEPT ![n] = @ + 1]
    /\ call' = [call EXCEPT !.delivered = @ \cup {<<from, i, n>>}]
    /\ UNCHANGED <<taskVars, pc, aggVars>>

InitHonest ==
    /\ InitCores(Authorities)
    /\ aggregator = NewAggregator
    /\ agg_out = [err |-> "Ok", ret |-> None, author |-> 0]
    /\ agg_releases = 0
    /\ call = [op |-> "network", delivered |-> {}]

\* No frame of an all-honest run reaches the synchronizer (SynchronizerIdle
\* below is part of every statement made here), so its tasks and the two
\* arms of Core::run they feed take no step.
NextHonest ==
    \E n \in Authorities :
        \/ Boot(n, Payload)
        \/ \E from \in Authorities \ {n} :
              \E i \in DOMAIN network[from] : RecvFrame(n, from, i)

SpecHonest == InitHonest /\ [][NextHonest]_vars

\* Nothing is queued for a synchronizer task or by one.
SynchronizerIdle ==
    \A n \in Authorities :
        /\ halt_channel[n] = <<>> /\ aba_sync[n] = <<>>
        /\ advance_channel[n] = <<>> /\ aba_feedback[n] = <<>>
        /\ aba_waiting[n] = {}

\* Every authority runs, every frame sent has been delivered and handled,
\* and no task has work: no step of any authority is left.
Quiet ==
    /\ \A n \in Authorities : pc[n] = "run" /\ Pending(n) = {}
    /\ SynchronizerIdle

\* C11: in an all-honest run of four authorities in which every frame is
\* delivered and every payload is available, every authority commits epoch 1:
\* once nothing is left to deliver, each authority has committed exactly one
\* block of epoch 1, the block carries a proof, and all committed the same.
C11_HappyPathCommits ==
    Quiet =>
        /\ \A n \in Authorities :
              /\ Cardinality({i \in DOMAIN commit_channel[n] :
                                 commit_channel[n][i].epoch = 1}) = 1
              /\ \A b \in Committed(n) : b.epoch = 1 => IsSome(b.proof)
        /\ \A m, n \in Authorities :
              \A b \in Committed(m), d \in Committed(n) :
                 (b.epoch = 1 /\ d.epoch = 1) => b = d


\* ---------------------------------------------- Binary Agreement returns 0
(***************************************************************************)
(* The run of the crashed-leader case, from the coin on: the peers send    *)
(* the RandomCoin and their Dones, Binary Agreement returns 0.  A Halt is  *)
(* transmitted by advance alone, which runs on a commit, so before the     *)
(* first commit no authority has a Halt to send: halt_channel and          *)
(* advance_channel stay empty and a commit has to come out of what the     *)
(* Core does with the 0.  The handlers of the frames of Provable Broadcast *)
(* and of the coin shares write neither the commit channel nor the advance *)
(* channel; these frames are not sent.  Core::run and the synchronizer     *)
(* task are polled for as long as they have something to do: weak          *)
(* fairness of the step.                                                   *)
(***************************************************************************)
StepFallback(n) ==
    \/ Boot(n, Payload)
    \/ \E coin \in In[n].coins : RecvRandomCoin(n, coin)
    \/ \E done \in In[n].dones : RecvDone(n, done)
    \/ RecvAbaFeedback(n)
    \/ BaReturn(n, FALSE)

NextFallback == StepFallback(11)

SpecFallback == Init /\ [][NextFallback]_vars /\ WF_vars(NextFallback)

\* Core::run has taken the 0 of Binary Agreement for epoch 1 off the
\* feedback channel and run done(&coin) on it.
FallbackEntered(n) ==
    /\ Has(ba_decision, 1) /\ ~ba_decision[1]
    /\ event[n].src = "aba_feedback" /\ event[n].epoch = 1

\* C13: once Binary Agreement has returned 0 for epoch 1 and the Core has
\* handled it, the Core eventually commits a block of epoch 1 that carries a
\* proof.
C13_FallbackCommits ==
    FallbackEntered(11) ~>
        (\E b \in Committed(11) : b.epoch = 1 /\ IsSome(b.proof))


\* ---------------------------------------------- Binary Agreement returns 1
\* Core::run takes a 1 of Binary Agreement off the feedback channel.
TakesOptimisticSuccess(n) ==
    /\ aba_feedback[n] /= <<>>
    /\ aba_feedback'[n] = Tail(aba_feedback[n])
    /\ Head(aba_feedback[n]).is_optimistic_path_success

\* Core::run takes off the advance channel the Halt the Binary Agreement
\* task made of the leader block.
AdvancesOnLeaderBlock(n) ==
    /\ advance_channel[n] /= <<>>
    /\ advance_channel'[n] = Tail(advance_channel[n])
    /\ Head(advance_channel[n]).is_optimistic
    /\ Head(advance_channel[n]).author = n

\* C14: when Binary Agreement returns 1 for epoch e the authority broadcasts
\* RequestHelp(e, self), and the block it commits for e on this path is the
\* block of the leader the coin elected, with a valid proof.
C14_OptimisticPath ==
    [][\A n \in Cores :
          /\ TakesOptimisticSuccess(n) =>
                network'[n] =
                    Append(network[n],
                           [msg |-> Msg("RequestHelp",
                                        [epoch |-> Head(aba_feedback[n]).epoch,
                                         requester |-> n]),
                            to |-> None])
          /\ AdvancesOnLeaderBlock(n) =>
                LET block == Head(advance_channel[n]).block
                    cell == ElectionCell(n, <<block.epoch, FirstView>>)
                IN /\ BlockCheckSigma(block)
                   /\ IsSome(cell.coin)
                   /\ block.author = Unwrap(cell.coin).leader]_vars


\* ------------------------------------------------------ Provable Broadcast
\* The frame Core::echo broadcasts for a value of the given digest.
EchoFrame(n, digest, author, phase, epoch) ==
    [msg |-> Msg("Echo", NewEcho(digest, author, phase, epoch, n)), to |-> None]

\* C21: a running authority that handles a Val(Block) of a live epoch, whose
\* author has stake and signed it, that carries no proof yet and whose payload
\* the mempool has, broadcasts an Echo of Phase1 over the block's digest and
\* caches the block.
C21_FreshValEchoed ==
    \A n \in Cores : \A val \in In[n].vals :
        (/\ Running(n)
         /\ val.type = "Block"
         /\ val.v.proof = None
         /\ BlockVerify(val.v, halt_mark[n], epochs_halted[n]) = "Ok")
        => LET c == HandleVal(Self(n), val, TRUE)
           IN /\ IsOk(c)
              /\ c.network =
                    Append(network[n],
                           EchoFrame(n, BlockDigest(val.v), val.v.author,
                                     "Phase1", val.v.epoch))
              /\ GetBlock(c, val.v.author, val.v.epoch) = Some(val.v)


\* The value of its own an authority holds for an epoch and a phase.
OwnVal(cached, n, e) == Get(cached[n], <<n, e>>)

\* Core::finish runs on the authority's own value of epoch e: the cached
\* value gains its proof.
FinishCalled(cached, n, e) ==
    /\ IsSome(OwnVal(cached, n, e))
    /\ ~IsSome(Unwrap(OwnVal(cached, n, e)).proof)
    /\ IsSome(OwnVal(cached', n, e))
    /\ IsSome(Unwrap(OwnVal(cached', n, e)).proof)

\* The Echo bucket of an epoch and a phase holds Echoes of that phase alone,
\* from distinct authors of at least quorum stake.
EchoQuorumAdmitted(aggs, e, phase) ==
    LET key == <<e, EchoDigest([epoch |-> e, phase |-> phase])>>
    IN /\ Has(aggs, key)
       /\ LET votes == aggs[key].votes
              authors == {votes[i].body.author : i \in DOMAIN votes}
          IN /\ \A i \in DOMAIN votes :
                   /\ votes[i].type = "Echo"
                   /\ votes[i].body.phase = phase
                   /\ votes[i].body.epoch = e
             /\ Cardinality(authors) = Len(votes)
             /\ Cardinality({a \in authors : Stake(a) > 0}) >= QuorumThreshold

C23_AttachedProofValid ==
    [][\A n \in Cores : \A e \in Epochs :
          /\ FinishCalled(blocks_received, n, e) =>
                LET block == Unwrap(OwnVal(blocks_received', n, e))
                IN /\ BlockCheckSigma(block)
                   /\ BlockVerify(block, halt_mark[n], epochs_halted[n]) = "Ok"
                   /\ result'[n] = "Ok"
          /\ FinishCalled(commit_vectors_received, n, e) =>
                LET cv == Unwrap(OwnVal(commit_vectors_received', n, e))
                IN /\ CommitVectorCheckSigma(cv)
                   /\ CommitVectorVerify(cv, halt_mark[n], epochs_halted[n]) = "Ok"
                   /\ result'[n] = "Ok"]_vars


\* ------------------------------------- handle_finish on a released quorum
(***************************************************************************)
(* The arm of handle_finish that runs on the Finishes an aggregator        *)
(* released, on its own: `call` holds the epoch, the phase and the         *)
(* released quorum, Finishes of three distinct authors in the order they   *)
(* were appended, and the Core that runs the arm has booted.               *)
(***************************************************************************)
InitFinishQuorum ==
    /\ InitCore
    /\ aggregator = NewAggregator
    /\ agg_out = [err |-> "Ok", ret |-> None, author |-> 0]
    /\ agg_releases = 0
    /\ \E e \in Epochs, phase \in {"Phase1", "Phase2"},
          order \in {q \in [1..QuorumThreshold -> Authorities] :
                        \A i, j \in DOMAIN q : i /= j => q[i] /= q[j]} :
          call = [op |-> "finish_quorum", epoch |-> e, phase |-> phase,
                  applied |-> FALSE,
                  quorum |->
                     [i \in DOMAIN order |->
                         Msg("Finish",
                             IF phase = "Phase1"
                             THEN [type |-> "Block", v |-> ProvedBlock(order[i], e)]
                             ELSE [type |-> "CommitVector",
                                   v |-> ProvedCv(order[i], e)])]]

\* handle_finish runs the arm of the phase on the released quorum.
ApplyFinishQuorum(n) ==
    /\ Running(n)
    /\ ~call.applied
    /\ Return(n, OnFinishQuorum(Self(n), call.epoch, call.phase, call.quorum))
    /\ call' = [call EXCEPT !.applied = TRUE]
    /\ UNCHANGED <<taskVars, pc, event, events, aggVars>>

NextFinishQuorum == Boot(11, Payload) \/ ApplyFinishQuorum(11)

SpecFinishQuorum == InitFinishQuorum /\ [][NextFinishQuorum]_vars

\* The RandomnessShare frames an authority has transmitted.
SharesSent(n) ==
    {i \in DOMAIN network[n] : network[n][i].msg.type = "RandomnessShare"}

ValidFinish(c, finish) ==
    /\ (IF finish.type = "Block"
        THEN BlockVerify(finish.v, c.halt_mark, c.epochs_halted)
        ELSE CommitVectorVerify(finish.v, c.halt_mark, c.epochs_halted)) = "Ok"
    /\ IF finish.type = "Block"
       THEN BlockCheckSigma(finish.v)
       ELSE CommitVectorCheckSigma(finish.v)

\* C26: Finish bucketing.  In every state of a running Core, handling any
\* valid Finish appends it to and reads the quorum from one and the same
\* bucket, keyed by (epoch, digest of the Finish): the handler does not panic
\* on the lookup, and when it returns Ok the bucket (epoch, Finish digest)
\* exists.
C26_FinishFindsItsBucket ==
    \A n \in Cores : \A finish \in In[n].vals :
        (Running(n) /\ ValidFinish(Self(n), finish)) =>
            LET c1 == HandleFinish(Self(n), finish)
                key == <<finish.v.epoch, FinishDigest(finish)>>
            IN /\ ~c1.panicked
               /\ (IsOk(c1) => Has(c1.votes_aggregators, key))


\* ------------------------------------------------------------------- C27
\* The committee members a received list names.
MembersOf(received) == Range(received) \cap Authorities
\* A received list without a repeated entry.
NoDuplicates(received) == Cardinality(Range(received)) = Len(received)
\* The commit vectors authority n holds, and the ones its peers send it.
HeldCvs(n) == {commit_vectors_received[n][k] : k \in DOMAIN commit_vectors_received[n]}
SentCvs(n) == {val.v : val \in {v \in In[n].vals : v.type = "CommitVector"}}

\* C27 as stated: every commit vector CommitVector::verify accepts, and every
\* one a Core holds after accepting it, has a received list without
\* duplicates, of committee members only, with at least a quorum of entries.
C27_AcceptedVectorsWellFormed ==
    \A n \in Cores :
        \A cv \in HeldCvs(n) \cup
                  {v \in SentCvs(n) :
                      Running(n) /\ CommitVectorVerify(v, halt_mark[n], epochs_halted[n]) = "Ok"} :
            /\ NoDuplicates(cv.received)
            /\ Range(cv.received) \subseteq Authorities
            /\ Len(cv.received) >= QuorumThreshold

\* C27 amended: every commit vector CommitVector::verify accepts, and every
\* one a Core holds, names at least a quorum of distinct committee members in
\* its received list (repeated entries and keys outside the committee are
\* skipped, not refused); a vector naming fewer is never accepted, and is
\* refused with InvalidCommitVector when its epoch is live, its author is a
\* member and its signature is valid.
C27_AcceptedVectorsHoldQuorum ==
    \A n \in Cores :
        /\ \A cv \in HeldCvs(n) : Cardinality(MembersOf(cv.received)) >= QuorumThreshold
        /\ Running(n) =>
             \A cv \in SentCvs(n) :
                LET r == CommitVectorVerify(cv, halt_mark[n], epochs_halted[n])
                    few == Cardinality(MembersOf(cv.received)) < QuorumThreshold
                IN /\ r = "Ok" => ~few
                   /\ (/\ few
                       /\ EpochLive(cv.epoch, halt_mark[n], epochs_halted[n])
                       /\ Stake(cv.author) > 0
                       /\ SigVerify(cv.signature, CommitVectorDigest(cv), cv.author))
                          => r = "InvalidCommitVector"

\* Authority 11 holds a vector it accepted whose received list repeats a
\* member and names a key outside the committee, and its last event was the
\* refusal of a vector one member short of the quorum.
C27_Witness ==
    /\ \E cv \in HeldCvs(11) :
          ~NoDuplicates(cv.received) /\ ~(Range(cv.received) \subseteq Authorities)
    /\ event[11].type = "Val"
    /\ result[11] = "InvalidCommitVector"


\* ------------------------------------------------------------------- C28
\* The election state of (epoch, view) holds a coin.
HasCoin(states, key) == Has(states, key) /\ IsSome(states[key].coin)
\* The RandomCoin frames authority n has handed to the network.
IsCoinFrame(f) == f.msg.type = "RandomCoin"
CoinFrames(n, e, v) ==
    {i \in DOMAIN network[n] :
        /\ IsCoinFrame(network[n][i])
        /\ network[n][i].msg.body.epoch = e
        /\ network[n][i].msg.body.view = v}
\* The step handles a RandomCoin taken off core_channel.
CoinDelivered(n) ==
    /\ events'[n] = events[n] + 1
    /\ event'[n].src = "core_channel"
    /\ event'[n].type = "RandomCoin"
\* The step handles a RandomCoin of a peer that sets the election state of its
\* (epoch, view), which held no coin: the node has not produced its own.
FirstCoinFromPeer(n) ==
    /\ CoinDelivered(n)
    /\ ~HasCoin(election_states[n], <<event'[n].epoch, FirstView>>)
    /\ HasCoin(election_states'[n], <<event'[n].epoch, FirstView>>)
\* The frames the step hands to the network.
NewFrames(n) == SubSeq(network'[n], Len(network[n]) + 1, Len(network'[n]))
OneCoinPerView ==
    \A n \in Cores : \A e \in Epochs :
        Cardinality(CoinFrames(n, e, FirstView)) <= 1

BaInvoked(n) == Len(aba_sync'[n]) = Len(aba_sync[n]) + 1
\* The Dones the aggregator of epoch e released in the step.
DoneQuorum(n, e) ==
    votes_aggregators'[n][<<e, DoneDigest([coin |-> [epoch |-> e, view |-> FirstView]])>>].votes
\* The input bit of S8: some Done of the quorum carries a proof.
InputBit(quorum) == \E i \in DOMAIN quorum : IsSome(quorum[i].body.proof)
\* What the invocation (epoch, ba_state, election_state) hands to BA as its
\* input: BAState is the only part of it that can hold a bit.
BaInput(n, e) == ba_states'[n][e].consistent

\* C29: when the Done aggregator of epoch e releases its quorum, BA is invoked
\* for e with the input bit b, b being true exactly when a Done of the quorum
\* carries a proof, and BAState(e) holds the coin of the epoch and the block
\* of the leader when the authority has it.
C29_BaInvokedWithInputBit ==
    [][\A n \in Cores :
          BaInvoked(n) =>
              LET e == aba_sync'[n][Len(aba_sync'[n])]
                  coin == election_states'[n][<<e, FirstView>>].coin
              IN /\ Len(DoneQuorum(n, e)) >= QuorumThreshold
                 /\ Has(ba_states'[n], e)
                 /\ IsSome(coin)
                 /\ ba_states'[n][e].coin = coin
                 /\ ba_states'[n][e].leader_block =
                        Get(blocks_received'[n], <<Unwrap(coin).leader, e>>)
                 /\ BaInput(n, e) = Some(InputBit(DoneQuorum(n, e)))]_vars


\* ------------------------------------------------------------------- C30
\* The step takes a feedback of BA off aba_sync_feedback_receiver that reports
\* output 0 with the coin, for an epoch that is live.
TakesFallbackFeedback(n) ==
    /\ Running(n)
    /\ aba_feedback[n] /= <<>>
    /\ aba_feedback'[n] = Tail(aba_feedback[n])
    /\ event'[n].src = "aba_feedback"
    /\ ~Head(aba_feedback[n]).is_optimistic_path_success
    /\ IsSome(Head(aba_feedback[n]).coin)
    /\ EpochLive(Head(aba_feedback[n]).epoch, halt_mark[n], epochs_halted[n])

\* C30: when the feedback of BA for a live epoch reports output 0 together
\* with the coin, the authority broadcasts a Done carrying that coin, although
\* its own Done is already in the Done aggregator of the epoch.
C30_DoneReEmittedOnOutputZero ==
    [][\A n \in Cores :
          TakesFallbackFeedback(n) =>
              LET coin == Unwrap(Head(aba_feedback[n]).coin)
              IN /\ Len(network'[n]) = Len(network[n]) + 1
                 /\ network'[n][Len(network'[n])].to = None
                 /\ network'[n][Len(network'[n])].msg.type = "Done"
                 /\ network'[n][Len(network'[n])].msg.body.author = n
                 /\ network'[n][Len(network'[n])].msg.body.coin = coin]_vars


\* ------------------------------------------------- commits of one authority
\* One Core that honest peers send Halts, RandomCoins and Echoes that pass
\* verification on a fresh Core, with the tasks of the synchronizer that turn
\* a Halt of the fallback path into an advance.
StepHalt(n) ==
    \/ Boot(n, Payload)
    \/ \E halt \in {h \in In[n].halts : HaltVerify(h, 0, {}) = "Ok"} :
          DeliverWithin(n, Msg("Halt", halt), HandleHalt(Self(n), halt, Payload),
                        MaxHaltEvents)
    \/ \E coin \in {k \in In[n].coins : RandomCoinVerify(k, 0, {}) = "Ok"} :
          DeliverWithin(n, Msg("RandomCoin", coin), HandleRandomCoin(Self(n), coin),
                        MaxHaltEvents)
    \/ \E echo \in {x \in In[n].echoes : EchoVerify(x, n, 0, {}) = "Ok"} :
          DeliverWithin(n, Msg("Echo", echo), HandleEcho(Self(n), echo),
                        MaxHaltEvents)
    \/ RecvAdvance(n, Payload)
    \/ SyncHalt(n)
NextHalt == StepHalt(11)
SpecHalt == Init /\ [][NextHalt]_vars

\* ------------------------------------------------------------------- C31
\* The Halt frames of epoch e authority n has handed to the network.
HaltFrames(n, e) ==
    {i \in DOMAIN network[n] :
        /\ network[n][i].msg.type = "Halt"
        /\ network[n][i].msg.body.block.epoch = e}
\* The step handles a Halt taken off core_channel that passes Halt::verify.
ValidHaltDelivered(n) ==
    /\ events'[n] = events[n] + 1
    /\ event'[n].src = "core_channel"
    /\ event'[n].type = "Halt"
    /\ ~event'[n].halted
    /\ result'[n] \notin {"UnknownAuthority", "InvalidSignature",
                          "InvalidSignatureShare", "MessageWithHaltedEpoch"}
\* The step runs Core::advance for epoch e: e is committed and cleaned up, the
\* Block of e + 1 is proposed and the Halt is forwarded.
AdvancedOn(n, e) ==
    /\ Len(commit_channel'[n]) = Len(commit_channel[n]) + 1
    /\ commit_channel'[n][Len(commit_channel'[n])].epoch = e
    /\ ~EpochLive(e, halt_mark'[n], epochs_halted'[n])
    /\ \A k \in DOMAIN votes_aggregators'[n] : k[1] /= e
    /\ \A k \in DOMAIN blocks_received'[n] : k[2] /= e
    /\ \A k \in DOMAIN election_states'[n] : k[1] /= e
    /\ Len(NewFrames(n)) = 2
    /\ NewFrames(n)[1].msg.type = "Val"
    /\ NewFrames(n)[1].msg.body.v.epoch = e + 1
    /\ NewFrames(n)[2].msg.type = "Halt"
    /\ NewFrames(n)[2].msg.body.block = commit_channel'[n][Len(commit_channel'[n])]
    /\ NewFrames(n)[2].to = None
OneHaltPerEpoch ==
    \A n \in Cores : \A e \in Epochs : Cardinality(HaltFrames(n, e)) <= 1

\* C31: an authority that receives a valid Halt of a live epoch e commits e,
\* cleans e up, starts epoch e + 1 and forwards the Halt (at once for an
\* optimistic Halt; a Halt of the fallback path is handed to the task that
\* waits for the coin of e); and in every run each authority forwards at most
\* one Halt of a given epoch.
C31_HaltForwardedOnce ==
    /\ []OneHaltPerEpoch
    /\ [][\A n \in Cores :
            ValidHaltDelivered(n) =>
                \/ AdvancedOn(n, event'[n].epoch)
                \/ /\ Len(halt_channel'[n]) = Len(halt_channel[n]) + 1
                   /\ halt_channel'[n][Len(halt_channel'[n])].block.epoch = event'[n].epoch
                   /\ network'[n] = network[n]]_vars


\* ------------------------------------------------------------------- C32
\* The task of the synchronizer for epoch e of authority n waits for the block
\* of the leader: BA returned 1 and BAState(e).leader_block is absent.
WaitsForLeaderBlock(n, e) ==
    /\ Running(n)
    /\ e \in aba_waiting[n]
    /\ Has(ba_states[n], e)
    /\ ~IsSome(ba_states[n][e].leader_block)
\* The blocks of the elected leader of epoch e the peers can send to n, with a
\* proof that verifies.
LeaderBlocks(n, e) ==
    {b \in In[n].blocks :
        /\ b.epoch = e
        /\ b.author = Unwrap(ba_states[n][e].coin).leader
        /\ BlockVerify(b, halt_mark[n], epochs_halted[n]) = "Ok"
        /\ BlockCheckSigma(b)}
\* The handler left the block in BAState(e) and no waker behind.
WokenWith(c, e, b) ==
    /\ IsOk(c)
    /\ c.ba_states[e].leader_block = Some(b)
    /\ c.ba_states[e].wakers = <<>>

\* C32: while a task waits on BAState(e).leader_block, a valid Help carrying
\* the block of the leader, and as well a late valid Val(Block) of the leader
\* for epoch e, set BAState(e).leader_block and wake the registered wakers.
C32_LeaderBlockWakeUp ==
    \A n \in Cores : \A e \in Epochs :
        WaitsForLeaderBlock(n, e) =>
            \A b \in LeaderBlocks(n, e) :
                /\ WokenWith(HandleHelp(Self(n), b), e, b)
                /\ WokenWith(HandleVal(Self(n), [type |-> "Block", v |-> b], TRUE), e, b)


\* ------------------------------------------------------------------- C33
\* A task of the synchronizer of authority n is suspended on a cell of epoch e:
\* a Halt of the fallback path waits for the coin of ElectionState(e, v), or
\* the task of BA waits for BAState(e).leader_block.
SuspendedOnElection(n, e) ==
    \E i \in DOMAIN halt_channel[n] :
        /\ halt_channel[n][i].key[1] = e
        /\ ~IsSome(ElectionCell(n, halt_channel[n][i].key).coin)
SuspendedOnBa(n, e) ==
    /\ e \in aba_waiting[n]
    /\ Has(ba_states[n], e)
    /\ ~IsSome(ba_states[n][e].leader_block)

\* C33: when epoch e is cleaned up, every waker registered on
\* ElectionState(e, v) and on BAState(e) is woken, so that no task of the
\* synchronizer is left suspended on a cell of a committed epoch.
C33_WaitersDrainedOnCleanup ==
    \A n \in Cores : \A e \in CommittedEpochs(n) :
        ~SuspendedOnElection(n, e) /\ ~SuspendedOnBa(n, e)


\* ------------------------------------------------------------------- C34
\* The handler of the step returned an error to Core::run.
ReturnedError(n) == result'[n] \notin {"Ok", "Panic"}
\* The step removes no aggregator, election state, BA state, cached block or
\* cached commit vector of authority n.
NothingRemoved(n) ==
    /\ DOMAIN votes_aggregators[n] \subseteq DOMAIN votes_aggregators'[n]
    /\ DOMAIN election_states[n] \subseteq DOMAIN election_states'[n]
    /\ DOMAIN ba_states[n] \subseteq DOMAIN ba_states'[n]
    /\ DOMAIN blocks_received[n] \subseteq DOMAIN blocks_received'[n]
    /\ DOMAIN commit_vectors_received[n] \subseteq DOMAIN commit_vectors_received'[n]
\* The step is on the commit path: a block goes to commit_channel.
CommitStep(n) == Len(commit_channel'[n]) = Len(commit_channel[n]) + 1

\* C34: whenever a handler returns a validation error the event loop keeps
\* running (it has not stopped and has not panicked, so the next event is
\* taken), and nothing of the epoch-scoped state is removed; state is removed
\* only by a step that commits a block (cleanup_epoch in advance).
C34_ErrorContainment ==
    [][\A n \in Cores :
          /\ (Running(n) /\ ReturnedError(n)) =>
                /\ pc'[n] = "run"
                /\ ~panicked'[n]
                /\ NothingRemoved(n)
          /\ ~NothingRemoved(n) => CommitStep(n)]_vars


\* ------------------------------------------------------------------- C35
\* C35: once blocks_received holds a block with a proof for (author, epoch),
\* no handler call replaces it with a block without proof for as long as the
\* entry is there (until the cleanup of the epoch); a Val(Block) handled after
\* the Finish that brought the proof does not erase it.
C35_ProofMonotonicity ==
    [][\A n \in Cores : \A k \in DOMAIN blocks_received[n] :
          (IsSome(blocks_received[n][k].proof) /\ k \in DOMAIN blocks_received'[n])
              => IsSome(blocks_received'[n][k].proof)]_vars


\* ------------------------------------------------------------------- C36
\* The valid Dones the other members of the committee can send to n.
PeerDones(n) ==
    {[author |-> a, coin |-> Coin(a, e, FirstView), proof |-> None] :
        a \in Authorities \ {n}, e \in Epochs}

\* C36: in whatever order RandomCoins and Dones were delivered, handling a
\* valid Done never panics for lack of a coin: when it makes the Done
\* aggregator of (epoch, view) release its quorum and BA is invoked,
\* ElectionState(epoch, view) exists and holds the coin.
C36_CoinAtDoneQuorum ==
    \A n \in Cores :
        Running(n) =>
            \A done \in PeerDones(n) :
                LET c == HandleDone(Self(n), done)
                IN /\ ~c.panicked
                   /\ Len(c.aba_sync) > Len(aba_sync[n]) =>
                         HasCoin(c.election_states, <<done.coin.epoch, done.coin.view>>)


\* ------------------------------------------------------------------- C37
\* The broadcasts of a Block of its own for epoch e in the frames fs.
IsProposal(f, n, e) ==
    /\ f.msg.type = "Val"
    /\ f.msg.body.type = "Block"
    /\ f.msg.body.v.author = n
    /\ f.msg.body.v.epoch = e
Proposals(n, e) == {i \in DOMAIN network[n] : IsProposal(network[n][i], n, e)}
OneProposalPerEpoch ==
    \A n \in Cores : \A e \in 1..(MaxEpoch + 1) : Cardinality(Proposals(n, e)) <= 1

\* C37: an authority generates and broadcasts at most one Block per epoch,
\* whatever the order of the commits; a step that commits epoch e when epoch
\* e + 1 is already committed, or already has its Block, broadcasts no Block
\* for e + 1.
C37_SingleProposalPerEpoch ==
    /\ []OneProposalPerEpoch
    /\ [][\A n \in Cores : \A e \in Epochs :
            (/\ CommitStep(n)
             /\ commit_channel'[n][Len(commit_channel'[n])].epoch = e
             /\ (e + 1 \in CommittedEpochs(n) \/ Proposals(n, e + 1) /= {}))
                => \A i \in DOMAIN NewFrames(n) : ~IsProposal(NewFrames(n)[i], n, e + 1)]_vars


\* ------------------------------------------------------------------- C38
\* The digests of the values authority n has proposed for epoch e in the given
\* phase of PB (its Block in Phase1, its CommitVector in Phase2).
OwnValDigests(n, e, phase) ==
    {ValDigest(network[n][i].msg.body) :
        i \in {j \in DOMAIN network[n] :
                 /\ network[n][j].msg.type = "Val"
                 /\ network[n][j].msg.body.v.author = n
                 /\ network[n][j].msg.body.v.epoch = e
                 /\ ValPhase(network[n][j].msg.body) = phase}}
\* The Echoes admitted into the aggregators of authority n.
AdmittedEchoes(n) ==
    UNION {{votes_aggregators[n][k].votes[i].body :
               i \in {j \in DOMAIN votes_aggregators[n][k].votes :
                        votes_aggregators[n][k].votes[j].type = "Echo"}} :
           k \in DOMAIN votes_aggregators[n]}

\* C38: every Echo admitted into an echo aggregator of an authority carries
\* the digest of the authority's own value of that epoch and phase, so that
\* the shares combined at the quorum are all over one value; an Echo that
\* names the authority as digest author but carries another digest is not
\* admitted.
C38_EchoDigestConsistency ==
    \A n \in Cores : \A echo \in AdmittedEchoes(n) :
        echo.digest \in OwnValDigests(n, echo.epoch, echo.phase)


\* ------------------------------------------------------------------- C39
\* The digests a phase-1 threshold signature for the block of `leader` in
\* epoch e signs: the shares of phase 1 sign the digest of the proposal.
LeaderDigests(leader, e) ==
    {BlockDigest(NewBlock(p, leader, e, None)) : p \in MempoolPayloads}
\* The proof of a Done is a threshold signature for the leader's block.
ProvesLeaderBlock(done, leader, e) ==
    /\ IsSome(done.proof)
    /\ \E d \in LeaderDigests(leader, e) : TsVerify(Unwrap(done.proof), d)

\* C39: when the input bit handle_done computes for the BA of epoch e is 1,
\* some Done of the released quorum carries a proof that is a valid phase-1
\* threshold signature for the block of the elected leader of e; a Done with
\* an arbitrary proof value cannot raise the bit.
C39_BaInputSound ==
    [][\A n \in Cores :
          BaInvoked(n) =>
              LET e == aba_sync'[n][Len(aba_sync'[n])]
                  quorum == DoneQuorum(n, e)
                  leader == Unwrap(election_states'[n][<<e, FirstView>>].coin).leader
              IN InputBit(quorum) =>
                     \E i \in DOMAIN quorum :
                         ProvesLeaderBlock(quorum[i].body, leader, e)]_vars

====
